---- MODULE Spec2Model ----
(***************************************************************************)
(* Discrete-time simulator for energy-harvesting edge fleets               *)
(* (hengsti/EdgeAI_MigrationStrategies).  One TLA+ step is one call of     *)
(* update_simulation, the per-tick hook of the selected strategy.          *)
(*                                                                         *)
(* Units: power in whole watts, energy in hundredths of a watt-hour (the   *)
(* source rounds every energy value to two decimals), efficiency,          *)
(* initial_charge and depth_of_discharge in percent.  Arithmetic is exact  *)
(* decimal arithmetic; binary floating-point drift is not modelled.        *)
(***************************************************************************)
EXTENDS Integers, Sequences, FiniteSets, TLC

(* ------------------------------ bounds -------------------------------- *)
MaxSteps == 4
MaxTransferTime == 2
max_training_time == 1
max_prediction_time == 2

(* ------------------------- configuration values ----------------------- *)
ServerId == 9
EdgeIds == {1, 2}
Devices == EdgeIds \cup {ServerId}
ServiceUniverse == <<1, 2, 3>>
min_power_threshold == 5
default_min_power_required == 5
power_required == 40
(* the configuration of the transfers: max_services_per_device, the
   specifications and the partner_devices of the edge devices *)
DefaultMaxServices == 1
DefaultSpecifications == [d \in EdgeIds |-> [cpu_cores |-> 2, reserved_cpu_cores |-> 2 - d]]
AllPartners == [d \in EdgeIds |-> EdgeIds \ {d}]

(* harvested (solar, wind) pairs a trace can hold at one index *)
EnergyData == { [solar |-> 0, wind |-> 0], [solar |-> 3, wind |-> 0],
                [solar |-> 0, wind |-> 40] }
Temperatures == {21}
(* random.choice over at most |EdgeIds| - 1 partners *)
MaxPick == Cardinality(EdgeIds) - 1

VARIABLES strategy, offloading, loadbalancing, battery_mode, transfer_time,
          steps, actual_power, power_source, status, services, service_server,
          service, temperature_measurement, transfer_model,
          max_capacity_wh, min_bsoc, efficiency, bsoc,
          events, initiated_at, uploaded_by, stayed_critical,
          max_services, specifications, partner_devices,
          config, pc, result

cfgvars == <<strategy, offloading, loadbalancing, battery_mode, transfer_time,
             max_capacity_wh, min_bsoc, efficiency,
             max_services, specifications, partner_devices, config>>
(* the position of main and what it has returned or raised *)
mainvars == <<pc, result>>
vars == <<strategy, offloading, loadbalancing, battery_mode, transfer_time,
          max_services, specifications, partner_devices, config, pc, result,
          steps, actual_power, power_source, status, services, service_server,
          service, temperature_measurement, transfer_model,
          max_capacity_wh, min_bsoc, efficiency, bsoc,
          events, initiated_at, uploaded_by, stayed_critical>>

(* the services of the topology at hand, and all_services in id order *)
ServiceIds == DOMAIN service_server
AllServices == SelectSeq(ServiceUniverse, LAMBDA s : s \in ServiceIds)

(* ------------------------------ helpers ------------------------------- *)
Min(a, b) == IF a < b THEN a ELSE b
Max(a, b) == IF a > b THEN a ELSE b
ToSet(seq) == {seq[i] : i \in 1..Len(seq)}
Take(seq, n) == SubSeq(seq, 1, Min(Max(n, 0), Len(seq)))

RECURSIVE EdgeOrderFrom(_)
EdgeOrderFrom(S) ==
    IF S = {} THEN <<>>
    ELSE LET m == CHOOSE x \in S : \A y \in S : x <= y
         IN <<m>> \o EdgeOrderFrom(S \ {m})
EdgeOrder == EdgeOrderFrom(EdgeIds)

(* list.remove(x): drops the first occurrence only *)
RECURSIVE RemoveFirst(_, _)
RemoveFirst(seq, x) ==
    IF seq = <<>> THEN <<>>
    ELSE IF Head(seq) = x THEN Tail(seq)
    ELSE <<Head(seq)>> \o RemoveFirst(Tail(seq), x)

(* round(a / b) for a >= 0, b > 0, halves rounded up *)
RoundDiv(a, b) == (2 * a + b) \div (2 * b)
(* round(watts * 1 / 3600.0, 2) in hundredths of a Wh *)
WattsToWh(w) == RoundDiv(w * 100, 3600)

(* The fleet as one record, so that the passes of a tick can be composed. *)
Fleet ==
    [actual_power |-> actual_power, power_source |-> power_source,
     status |-> status, services |-> services,
     service_server |-> service_server, service |-> service,
     temperature_measurement |-> temperature_measurement,
     transfer_model |-> transfer_model, bsoc |-> bsoc, events |-> events]

Log(f, d, e) == [f EXCEPT !.events[d] = Append(@, e)]

(* ----------------------- energy_harvesting ---------------------------- *)
(* HarvesterBattery.charge_battery; e is the trace entry of this tick *)
charge_battery(f, d, e) ==
    LET harvested_power == Max(e.solar, e.wind)
        energy_added_wh == RoundDiv(WattsToWh(harvested_power) * efficiency, 100)
    IN [f EXCEPT !.bsoc[d] = Min(@ + energy_added_wh, max_capacity_wh)]

(* variant: the draw is allowed down to one draw below the floor *)
consume_energy_floorless(f, d, required_power_w) ==
    LET required_energy_wh == WattsToWh(required_power_w)
    IN IF f.bsoc[d] >= min_bsoc - required_energy_wh
       THEN LET g == [f EXCEPT !.bsoc[d] = @ - required_energy_wh]
            IN [fleet |-> g, success |-> ~(g.bsoc[d] < min_bsoc)]
       ELSE [fleet |-> f, success |-> FALSE]

(* variant: the refused call debits the battery as well *)
consume_energy_debit(f, d, required_power_w) ==
    LET required_energy_wh == WattsToWh(required_power_w)
        g == [f EXCEPT !.bsoc[d] = @ - required_energy_wh]
    IN IF f.bsoc[d] >= min_bsoc
       THEN [fleet |-> g, success |-> ~(g.bsoc[d] < min_bsoc)]
       ELSE [fleet |-> g, success |-> FALSE]

(* HarvesterBattery.consume_energy: the fleet after the call and the result *)
consume_energy(f, d, required_power_w) ==
    LET required_energy_wh == WattsToWh(required_power_w)
    IN IF f.bsoc[d] >= min_bsoc
       THEN LET g == [f EXCEPT !.bsoc[d] = @ - required_energy_wh]
            IN [fleet |-> g, success |-> ~(g.bsoc[d] < min_bsoc)]
       ELSE [fleet |-> f, success |-> FALSE]

(* ----------------------------- BaseDevice ----------------------------- *)
get_highest_available_power(e) ==
    LET p == IF e.solar > e.wind THEN e.solar ELSE e.wind
        src == IF e.solar > e.wind THEN "solar" ELSE "wind"
    IN [actual_power |-> p, power_source |-> IF p = 0 THEN "none" ELSE src]

modify_power_without_battery(f, d, e) ==
    LET hp == get_highest_available_power(e)
    IN [f EXCEPT !.actual_power[d] = hp.actual_power,
                 !.power_source[d] = hp.power_source]

(* variant: the battery is drawn from before it is charged *)
modify_power_with_battery_consume_first(f, d, e, required_power) ==
    LET c == consume_energy(f, d, required_power)
        g == charge_battery(c.fleet, d, e)
    IN [g EXCEPT !.actual_power[d] = IF c.success THEN required_power ELSE 0,
                 !.power_source[d] = "battery"]

modify_power_with_battery(f, d, e, required_power) ==
    LET c == consume_energy(charge_battery(f, d, e), d, required_power)
    IN [c.fleet EXCEPT !.actual_power[d] = IF c.success THEN required_power ELSE 0,
                       !.power_source[d] = "battery"]

modify_power(f, d, e, required_power) ==
    IF battery_mode THEN modify_power_with_battery(f, d, e, required_power)
    ELSE modify_power_without_battery(f, d, e)

(* variant: a device is on from the threshold on *)
modify_state_without_battery_on_at_threshold(f, d, min_power_required) ==
    IF f.actual_power[d] >= min_power_required
    THEN [f EXCEPT !.status[d] = [state |-> "on", active |-> TRUE]]
    ELSE IF 0 < f.actual_power[d] /\ f.actual_power[d] <= min_power_required
    THEN [f EXCEPT !.status[d] = [state |-> "critical", active |-> TRUE]]
    ELSE [f EXCEPT !.status[d] = [state |-> "off", active |-> FALSE]]

(* variant: the critical branch marks the device inactive *)
modify_state_without_battery_inactive(f, d, min_power_required) ==
    IF f.actual_power[d] > min_power_required
    THEN [f EXCEPT !.status[d] = [state |-> "on", active |-> TRUE]]
    ELSE IF 0 < f.actual_power[d] /\ f.actual_power[d] <= min_power_required
    THEN [f EXCEPT !.status[d] = [state |-> "critical", active |-> FALSE]]
    ELSE [f EXCEPT !.status[d] = [state |-> "off", active |-> FALSE]]

modify_state_without_battery(f, d, min_power_required) ==
    IF f.actual_power[d] > min_power_required
    THEN [f EXCEPT !.status[d] = [state |-> "on", active |-> TRUE]]
    ELSE IF 0 < f.actual_power[d] /\ f.actual_power[d] <= min_power_required
    THEN [f EXCEPT !.status[d] = [state |-> "critical", active |-> TRUE]]
    ELSE [f EXCEPT !.status[d] = [state |-> "off", active |-> FALSE]]

modify_state_with_battery(f, d) ==
    IF f.actual_power[d] > 0
    THEN IF f.bsoc[d] * 10 >= max_capacity_wh * 4
         THEN [f EXCEPT !.status[d] = [state |-> "on", active |-> TRUE]]
         ELSE IF min_bsoc <= f.bsoc[d] /\ f.bsoc[d] * 10 < max_capacity_wh * 4
         THEN [f EXCEPT !.status[d] = [state |-> "critical", active |-> TRUE]]
         ELSE f
    ELSE [f EXCEPT !.status[d] = [state |-> "off", active |-> FALSE]]

modify_state(f, d, min_power_required) ==
    IF battery_mode THEN modify_state_with_battery(f, d)
    ELSE modify_state_without_battery(f, d, min_power_required)

(* variant: the duration of a transfer in flight is not advanced *)
update_transfer_duration_idle(f, d) ==
    [fleet |-> f,
     completed |-> f.transfer_model[d].transfer_duration >= transfer_time[d]]

(* variant: the transfer completes only once the duration exceeds
   transfer_time *)
update_transfer_duration_strict(f, d) ==
    LET g == [f EXCEPT !.transfer_model[d].transfer_duration = @ + 1]
    IN [fleet |-> g,
        completed |-> g.transfer_model[d].transfer_duration > transfer_time[d]]

update_transfer_duration(f, d) ==
    LET g == [f EXCEPT !.transfer_model[d].transfer_duration = @ + 1]
    IN [fleet |-> g,
        completed |-> g.transfer_model[d].transfer_duration >= transfer_time[d]]

(* variant: only the duration is reset, the in-flight flag stays set *)
reset_transfer_state_flag(f, d) ==
    [f EXCEPT !.transfer_model[d].transfer_duration = 0]

(* variant: only the in-flight flag is reset, the duration is kept *)
reset_transfer_state_duration(f, d) ==
    [f EXCEPT !.transfer_model[d].transfer = FALSE]

reset_transfer_state(f, d) ==
    [f EXCEPT !.transfer_model[d].transfer = FALSE,
              !.transfer_model[d].transfer_duration = 0]

start_transfer(f, d) ==
    [f EXCEPT !.transfer_model[d].transfer = TRUE,
              !.transfer_model[d].transfer_duration = 0]

assign_transfer_id_to_edge_device(f, d) ==
    [f EXCEPT !.transfer_model[d].transfer_from_device_id = ServerId]

assign_transfer_id_to_server(f, d) ==
    [f EXCEPT !.transfer_model[d].transfer_to_device_id = ServerId]

(* variant: the to-server slot is never cleared *)
reset_transfer_id_to_server_stale(f, d) == f

reset_transfer_id_to_server(f, d) ==
    [f EXCEPT !.transfer_model[d].transfer_to_device_id = 0]

reset_transfer_id_to_edge_device(f, d) ==
    [f EXCEPT !.transfer_model[d].transfer_from_device_id = 0]

(* variant: the power is only looked at once the duration has run out *)
transfer_failed_late(f, d) ==
    IF f.transfer_model[d].transfer_duration < transfer_time[d] THEN FALSE
    ELSE f.actual_power[d] = 0

transfer_failed(f, d) ==
    IF f.transfer_model[d].transfer_duration >= transfer_time[d] THEN FALSE
    ELSE f.actual_power[d] = 0

(* variant: the service changes lists but service.server still names the
   edge device *)
assign_service_edge_device_to_server_unowned(f, d, s) ==
    IF s \in ToSet(f.services[d])
    THEN [f EXCEPT !.services[d] = RemoveFirst(@, s),
                   !.services[ServerId] = Append(@, s)]
    ELSE f

assign_service_edge_device_to_server(f, d, s) ==
    IF s \in ToSet(f.services[d])
    THEN [f EXCEPT !.services[d] = RemoveFirst(@, s),
                   !.services[ServerId] = Append(@, s),
                   !.service_server[s] = ServerId]
    ELSE f

(* variant: the service is appended to the device but never removed from the
   server's list *)
assign_service_server_to_edge_device_keep(f, d, s) ==
    IF s \in ToSet(f.services[ServerId])
    THEN [f EXCEPT !.services[d] = Append(@, s),
                   !.service_server[s] = d]
    ELSE f

assign_service_server_to_edge_device(f, d, s) ==
    IF s \in ToSet(f.services[ServerId])
    THEN [f EXCEPT !.services[ServerId] = RemoveFirst(@, s),
                   !.services[d] = Append(@, s),
                   !.service_server[s] = d]
    ELSE f

(* variant: the buffer is copied to the server and kept on the device *)
assign_data_to_server_copy(f, d) ==
    [f EXCEPT !.temperature_measurement[ServerId] = @ \o f.temperature_measurement[d]]

assign_data_to_server(f, d) ==
    [f EXCEPT !.temperature_measurement[ServerId] = @ \o f.temperature_measurement[d],
              !.temperature_measurement[d] = <<>>]

assign_data_to_edge_device(f, d) ==
    [f EXCEPT !.temperature_measurement[d] = @ \o f.temperature_measurement[ServerId],
              !.temperature_measurement[ServerId] = <<>>]

(* ------------------------------ runnables ----------------------------- *)
train_model(s) ==
    IF s.trained THEN s
    ELSE IF s.actual_training_time = max_training_time /\ ~s.trained
    THEN [s EXCEPT !.trained = TRUE, !.actual_training_time = 0]
    ELSE [s EXCEPT !.actual_training_time = @ + 1]

(* variant: predicts whether or not the service is trained *)
predict_untrained(s) ==
    LET s1 == IF s.actual_prediction_time < max_prediction_time
              THEN [s EXCEPT !.actual_prediction_time = @ + 1] ELSE s
    IN IF s1.actual_prediction_time = max_prediction_time
       THEN [s1 EXCEPT !.predictions_counter = @ + 1, !.actual_prediction_time = 0]
       ELSE s1

predict(s) ==
    IF ~s.trained THEN s
    ELSE LET s1 == IF s.trained /\ s.actual_prediction_time < max_prediction_time
                   THEN [s EXCEPT !.actual_prediction_time = @ + 1] ELSE s
         IN IF s1.actual_prediction_time = max_prediction_time
            THEN [s1 EXCEPT !.predictions_counter = @ + 1, !.actual_prediction_time = 0]
            ELSE s1

increase_program_counter(s) == [s EXCEPT !.program_counter = @ + 1]

AIModel_run(f, s) ==
    [f EXCEPT !.service[s] =
        increase_program_counter(predict(train_model([@ EXCEPT !.state = "running"])))]

(* variant: stopping a service also counts a program step *)
AIModel_stop_counting(f, s) ==
    [f EXCEPT !.service[s].state = "stopped", !.service[s].program_counter = @ + 1]

AIModel_stop(f, s) == [f EXCEPT !.service[s].state = "stopped"]

(* variant: a measurement above 30 degrees is not recorded *)
collect_temperature_hot(f, d, timestep, temperature) ==
    IF f.status[d].state = "on" /\ ~f.transfer_model[d].transfer /\ temperature <= 30
    THEN [f EXCEPT !.temperature_measurement[d] =
              Append(@, [timestep |-> timestep, temperature |-> temperature])]
    ELSE f

collect_temperature(f, d, timestep, temperature) ==
    IF f.status[d].state = "on" /\ ~f.transfer_model[d].transfer
    THEN [f EXCEPT !.temperature_measurement[d] =
              Append(@, [timestep |-> timestep, temperature |-> temperature])]
    ELSE f

(* --------------------------- ProactiveDevice -------------------------- *)
get_low_power(f, d, min_power_required) ==
    IF f.actual_power[d] >= min_power_required THEN FALSE ELSE TRUE

get_low_battery_power(f, d, min_power_required) ==
    LET min_power_required_wh == WattsToWh(min_power_required)
    IN IF f.bsoc[d] >= min_power_required_wh /\ f.bsoc[d] * 10 > max_capacity_wh * 4
       THEN FALSE ELSE TRUE

get_high_power(f, d, min_power_required) ==
    IF f.actual_power[d] >= min_power_required THEN TRUE ELSE FALSE

(* the threshold in Wh is not rounded here: bsoc/100 >= watts/3600 *)
get_high_battery_power(f, d, min_power_required) ==
    IF f.bsoc[d] * 36 >= min_power_required /\ f.bsoc[d] * 10 > max_capacity_wh * 4
    THEN TRUE ELSE FALSE

transfer_model_to_server(f, d, min_power_required) ==
    IF f.transfer_model[d].transfer THEN f
    ELSE LET transfer_initiate ==
                 IF battery_mode THEN get_low_battery_power(f, d, min_power_required)
                 ELSE get_low_power(f, d, min_power_required)
         IN IF transfer_initiate
            THEN LET services_to_transfer == f.services[d]
                     g == [f EXCEPT !.transfer_model[d].transfer_service_ids =
                                        services_to_transfer]
                 IN Log(assign_transfer_id_to_server(start_transfer(g, d), d),
                        d, "upload_initiated")
            ELSE f

RECURSIVE assign_services_to_server(_, _, _)
assign_services_to_server(f, d, services_to_assign) ==
    IF services_to_assign = <<>> THEN f
    ELSE assign_services_to_server(
             assign_service_edge_device_to_server(f, d, Head(services_to_assign)),
             d, Tail(services_to_assign))

RECURSIVE assign_services_to_edge_device(_, _, _)
assign_services_to_edge_device(f, d, services_to_assign) ==
    IF services_to_assign = <<>> THEN f
    ELSE assign_services_to_edge_device(
             assign_service_server_to_edge_device(f, d, Head(services_to_assign)),
             d, Tail(services_to_assign))

update_ongoing_transfers_to_server(f, d) ==
    IF transfer_failed(f, d)
    THEN LET g == reset_transfer_id_to_server(reset_transfer_state(f, d), d)
         IN Log([g EXCEPT !.transfer_model[d].transfer_service_ids = <<>>,
                          !.transfer_model[d].transfer_failed = @ + 1],
                d, "upload_failed")
    ELSE LET u == update_transfer_duration(f, d)
         IN IF u.completed
            THEN LET service_ids == ToSet(u.fleet.transfer_model[d].transfer_service_ids)
                     services_to_assign ==
                         SelectSeq(u.fleet.services[d], LAMBDA s : s \in service_ids)
                     g == assign_services_to_server(u.fleet, d, services_to_assign)
                     h == [g EXCEPT !.services[d] =
                               SelectSeq(@, LAMBDA s : s \notin service_ids)]
                     r == reset_transfer_id_to_server(reset_transfer_state(h, d), d)
                 IN Log([r EXCEPT !.transfer_model[d].transfer_service_ids = <<>>,
                                  !.transfer_model[d].transfer_succeded = @ + 1],
                        d, "upload_completed")
            ELSE u.fleet

(* variant: a download is initiated whether or not a transfer is in flight *)
transfer_model_to_edge_device_restart(f, d, services_arg, min_power_required) ==
    IF FALSE THEN [fleet |-> f, result |-> FALSE]
    ELSE LET transfer_initiate ==
                 IF battery_mode THEN get_high_battery_power(f, d, min_power_required)
                 ELSE get_high_power(f, d, min_power_required)
         IN IF transfer_initiate
            THEN LET g == [f EXCEPT !.transfer_model[d].transfer_service_ids =
                                        services_arg]
                 IN [fleet |-> Log(assign_transfer_id_to_edge_device(
                                       start_transfer(g, d), d),
                                   d, "download_initiated"),
                     result |-> FALSE]
            ELSE [fleet |-> f, result |-> FALSE]

transfer_model_to_edge_device(f, d, services_arg, min_power_required) ==
    IF f.transfer_model[d].transfer THEN [fleet |-> f, result |-> FALSE]
    ELSE LET transfer_initiate ==
                 IF battery_mode THEN get_high_battery_power(f, d, min_power_required)
                 ELSE get_high_power(f, d, min_power_required)
         IN IF transfer_initiate
            THEN LET g == [f EXCEPT !.transfer_model[d].transfer_service_ids =
                                        services_arg]
                 IN [fleet |-> Log(assign_transfer_id_to_edge_device(
                                       start_transfer(g, d), d),
                                   d, "download_initiated"),
                     result |-> FALSE]
            ELSE [fleet |-> f, result |-> FALSE]

(* variant: a failed download is counted on the edge device *)
update_ongoing_transfers_to_device_own(f, d) ==
    IF transfer_failed(f, d)
    THEN LET g == reset_transfer_id_to_edge_device(reset_transfer_state(f, d), d)
         IN Log([g EXCEPT !.transfer_model[d].transfer_service_ids = <<>>,
                          !.transfer_model[d].transfer_failed = @ + 1],
                d, "download_failed")
    ELSE LET u == update_transfer_duration(f, d)
         IN IF u.completed
            THEN LET service_ids == ToSet(u.fleet.transfer_model[d].transfer_service_ids)
                     services_to_assign ==
                         SelectSeq(u.fleet.services[ServerId], LAMBDA s : s \in service_ids)
                     g == assign_services_to_edge_device(u.fleet, d, services_to_assign)
                     h == [g EXCEPT !.services[ServerId] =
                               SelectSeq(@, LAMBDA s : s \notin service_ids)]
                     r == reset_transfer_id_to_edge_device(reset_transfer_state(h, d), d)
                 IN Log([r EXCEPT !.transfer_model[d].transfer_service_ids = <<>>,
                                  !.transfer_model[ServerId].transfer_succeded = @ + 1],
                        d, "download_completed")
            ELSE u.fleet

update_ongoing_transfers_to_device(f, d) ==
    IF transfer_failed(f, d)
    THEN LET g == reset_transfer_id_to_edge_device(reset_transfer_state(f, d), d)
         IN Log([g EXCEPT !.transfer_model[d].transfer_service_ids = <<>>,
                          !.transfer_model[ServerId].transfer_failed = @ + 1],
                d, "download_failed")
    ELSE LET u == update_transfer_duration(f, d)
         IN IF u.completed
            THEN LET service_ids == ToSet(u.fleet.transfer_model[d].transfer_service_ids)
                     services_to_assign ==
                         SelectSeq(u.fleet.services[ServerId], LAMBDA s : s \in service_ids)
                     g == assign_services_to_edge_device(u.fleet, d, services_to_assign)
                     h == [g EXCEPT !.services[ServerId] =
                               SelectSeq(@, LAMBDA s : s \notin service_ids)]
                     r == reset_transfer_id_to_edge_device(reset_transfer_state(h, d), d)
                 IN Log([r EXCEPT !.transfer_model[d].transfer_service_ids = <<>>,
                                  !.transfer_model[ServerId].transfer_succeded = @ + 1],
                        d, "download_completed")
            ELSE u.fleet

RECURSIVE update_ongoing_transfers_model(_, _)
update_ongoing_transfers_model(f, all_edge_devices) ==
    IF all_edge_devices = <<>> THEN f
    ELSE LET d == Head(all_edge_devices)
             g == IF f.transfer_model[d].transfer
                     /\ f.transfer_model[d].transfer_to_device_id # 0
                  THEN update_ongoing_transfers_to_server(f, d) ELSE f
             h == IF g.transfer_model[d].transfer
                     /\ g.transfer_model[d].transfer_from_device_id # 0
                  THEN update_ongoing_transfers_to_device(g, d) ELSE g
         IN update_ongoing_transfers_model(h, Tail(all_edge_devices))

transfer_data_to_server(f, d, min_power_required) ==
    IF f.transfer_model[d].transfer THEN f
    ELSE LET transfer_initiate ==
                 IF battery_mode THEN get_low_battery_power(f, d, min_power_required)
                 ELSE get_low_power(f, d, min_power_required)
         IN IF transfer_initiate
            THEN Log(assign_transfer_id_to_server(start_transfer(f, d), d),
                     d, "upload_initiated")
            ELSE f

transfer_data_to_edge_device(f, d, min_power_required) ==
    IF f.transfer_model[d].transfer THEN [fleet |-> f, result |-> FALSE]
    ELSE LET transfer_initiate ==
                 IF battery_mode THEN get_low_battery_power(f, d, min_power_required)
                 ELSE get_low_power(f, d, min_power_required)
         IN IF transfer_initiate
            THEN [fleet |-> Log(assign_transfer_id_to_edge_device(start_transfer(f, d), d),
                                d, "download_initiated"),
                  result |-> FALSE]
            ELSE [fleet |-> f, result |-> FALSE]

update_ongoing_data_transfer_to_server(f, d) ==
    IF transfer_failed(f, d)
    THEN LET g == reset_transfer_id_to_server(reset_transfer_state(f, d), d)
         IN Log([g EXCEPT !.transfer_model[d].transfer_failed = @ + 1],
                d, "upload_failed")
    ELSE LET u == update_transfer_duration(f, d)
         IN IF u.completed
            THEN LET g == assign_data_to_server(u.fleet, d)
                     r == reset_transfer_id_to_server(reset_transfer_state(g, d), d)
                 IN Log([r EXCEPT !.transfer_model[d].transfer_succeded = @ + 1],
                        d, "upload_completed")
            ELSE u.fleet

update_ongoing_data_transfer_to_edge_device(f, d) ==
    IF transfer_failed(f, d)
    THEN LET g == reset_transfer_id_to_edge_device(reset_transfer_state(f, d), d)
         IN Log([g EXCEPT !.transfer_model[ServerId].transfer_failed = @ + 1],
                d, "download_failed")
    ELSE LET u == update_transfer_duration(f, d)
         IN IF u.completed
            THEN LET g == assign_data_to_edge_device(u.fleet, d)
                     r == reset_transfer_id_to_edge_device(reset_transfer_state(g, d), d)
                 IN Log([r EXCEPT !.transfer_model[ServerId].transfer_succeded = @ + 1],
                        d, "download_completed")
            ELSE u.fleet

RECURSIVE update_ongoing_transfers_data(_, _)
update_ongoing_transfers_data(f, all_edge_devices) ==
    IF all_edge_devices = <<>> THEN f
    ELSE LET d == Head(all_edge_devices)
             g == IF f.transfer_model[d].transfer
                     /\ f.transfer_model[d].transfer_to_device_id # 0
                  THEN update_ongoing_data_transfer_to_server(f, d) ELSE f
             h == IF g.transfer_model[d].transfer
                     /\ g.transfer_model[d].transfer_from_device_id # 0
                  THEN update_ongoing_data_transfer_to_edge_device(g, d) ELSE g
         IN update_ongoing_transfers_data(h, Tail(all_edge_devices))

update_ongoing_transfers(f, all_devices) ==
    IF offloading = "model" THEN update_ongoing_transfers_model(f, all_devices)
    ELSE IF offloading = "data" THEN update_ongoing_transfers_data(f, all_devices)
    ELSE f

transfer_to_server(f, d, min_power_required) ==
    IF offloading = "model" THEN transfer_model_to_server(f, d, min_power_required)
    ELSE IF offloading = "data"
    THEN IF Len(f.temperature_measurement[d]) > 0
         THEN transfer_data_to_server(f, d, min_power_required)
         ELSE f
    ELSE f

(* variant: the free slots do not count the services the device hosts *)
RECURSIVE transfer_to_edge_device_model_full(_, _, _, _, _)
transfer_to_edge_device_model_full(f, all_edge_devices, services_to_transfer, transferring_service_ids, min_power_required) ==
    IF all_edge_devices = <<>> THEN f
    ELSE LET d == Head(all_edge_devices)
             rest == Tail(all_edge_devices)
             device_slots == specifications[d].cpu_cores
                             - specifications[d].reserved_cpu_cores
             free_slots == IF loadbalancing THEN Max(0, device_slots) ELSE 1
             skip == \/ f.status[d].state # "on"
                     \/ IF loadbalancing THEN free_slots <= 0 ELSE f.services[d] # <<>>
             assignable_services ==
                 Take(SelectSeq(services_to_transfer,
                                LAMBDA s : s \notin transferring_service_ids), free_slots)
             r == transfer_model_to_edge_device(f, d, assignable_services, min_power_required)
             remaining == IF r.result
                          THEN SelectSeq(services_to_transfer,
                                         LAMBDA s : s \notin ToSet(assignable_services))
                          ELSE services_to_transfer
         IN IF skip \/ assignable_services = <<>>
            THEN transfer_to_edge_device_model_full(f, rest, services_to_transfer,
                                               transferring_service_ids, min_power_required)
            ELSE transfer_to_edge_device_model_full(r.fleet, rest, remaining,
                                               transferring_service_ids, min_power_required)

(* the loop of transfer_to_edge_device over the fleet, offloading = model *)
RECURSIVE transfer_to_edge_device_model(_, _, _, _, _)
transfer_to_edge_device_model(f, all_edge_devices, services_to_transfer, transferring_service_ids, min_power_required) ==
    IF all_edge_devices = <<>> THEN f
    ELSE LET d == Head(all_edge_devices)
             rest == Tail(all_edge_devices)
             device_slots == specifications[d].cpu_cores
                             - specifications[d].reserved_cpu_cores - Len(f.services[d])
             free_slots == IF loadbalancing THEN Max(0, device_slots) ELSE 1
             skip == \/ f.status[d].state # "on"
                     \/ IF loadbalancing THEN free_slots <= 0 ELSE f.services[d] # <<>>
             assignable_services ==
                 Take(SelectSeq(services_to_transfer,
                                LAMBDA s : s \notin transferring_service_ids), free_slots)
             r == transfer_model_to_edge_device(f, d, assignable_services, min_power_required)
             remaining == IF r.result
                          THEN SelectSeq(services_to_transfer,
                                         LAMBDA s : s \notin ToSet(assignable_services))
                          ELSE services_to_transfer
         IN IF skip \/ assignable_services = <<>>
            THEN transfer_to_edge_device_model(f, rest, services_to_transfer,
                                               transferring_service_ids, min_power_required)
            ELSE transfer_to_edge_device_model(r.fleet, rest, remaining,
                                               transferring_service_ids, min_power_required)

RECURSIVE transfer_to_edge_device_data(_, _, _)
transfer_to_edge_device_data(f, all_edge_devices, min_power_required) ==
    IF all_edge_devices = <<>> THEN f
    ELSE LET d == Head(all_edge_devices)
             g == IF f.status[d].state = "on" /\ Len(f.temperature_measurement[d]) = 0
                  THEN transfer_data_to_edge_device(f, d, min_power_required).fleet
                  ELSE f
         IN transfer_to_edge_device_data(g, Tail(all_edge_devices), min_power_required)

transfer_to_edge_device(f, all_edge_devices, min_power_required) ==
    IF offloading = "model"
    THEN LET services_to_transfer ==
                 SelectSeq(AllServices, LAMBDA s : f.service_server[s] = ServerId)
             transferring_service_ids ==
                 UNION {ToSet(f.transfer_model[d].transfer_service_ids) : d \in Devices}
         IN transfer_to_edge_device_model(f, all_edge_devices, services_to_transfer,
                                          transferring_service_ids, min_power_required)
    ELSE IF offloading = "data"
    THEN IF Len(f.temperature_measurement[ServerId]) > 0
         THEN transfer_to_edge_device_data(f, all_edge_devices, min_power_required)
         ELSE f
    ELSE f

(* ------------------------- SimulationProactive ------------------------ *)
RECURSIVE run_or_stop_services(_, _, _)
run_or_stop_services(f, d, edge_device_services) ==
    IF edge_device_services = <<>> THEN f
    ELSE LET s == Head(edge_device_services)
             g == IF ~f.transfer_model[d].transfer THEN AIModel_run(f, s)
                  ELSE AIModel_stop(f, s)
         IN run_or_stop_services(g, d, Tail(edge_device_services))

(* variant: transfer_to_server is called for a device without services too *)
RECURSIVE proactive_edge_devices_always(_, _, _, _, _)
proactive_edge_devices_always(f, all_devices, current_timestep, energy, temperature) ==
    IF all_devices = <<>> THEN f
    ELSE LET d == Head(all_devices)
             f1 == modify_power(f, d, energy[d], power_required)
             f2 == modify_state(f1, d, min_power_threshold)
             f3 == collect_temperature(f2, d, current_timestep, temperature[d])
             edge_device_services ==
                 SelectSeq(AllServices, LAMBDA s : f3.service_server[s] = d)
             f4 == transfer_to_server(
                       run_or_stop_services(f3, d, edge_device_services),
                       d, min_power_threshold)
         IN proactive_edge_devices_always(f4, Tail(all_devices), current_timestep,
                                          energy, temperature)

(* the edge-device loop; energy and temperature are this tick's inputs *)
RECURSIVE proactive_edge_devices(_, _, _, _, _)
proactive_edge_devices(f, all_devices, current_timestep, energy, temperature) ==
    IF all_devices = <<>> THEN f
    ELSE LET d == Head(all_devices)
             f1 == modify_power(f, d, energy[d], power_required)
             f2 == modify_state(f1, d, min_power_threshold)
             f3 == collect_temperature(f2, d, current_timestep, temperature[d])
             edge_device_services ==
                 SelectSeq(AllServices, LAMBDA s : f3.service_server[s] = d)
             f4 == IF edge_device_services # <<>>
                   THEN transfer_to_server(
                            run_or_stop_services(f3, d, edge_device_services),
                            d, min_power_threshold)
                   ELSE f3
         IN proactive_edge_devices(f4, Tail(all_devices), current_timestep,
                                   energy, temperature)

(* variant: the transfers in flight are resolved before the initiations *)
proactive_update_simulation_retry(f, current_timestep, energy, temperature) ==
    LET f0 == update_ongoing_transfers(f, EdgeOrder)
        f1 == proactive_edge_devices(f0, EdgeOrder, current_timestep, energy, temperature)
    IN transfer_to_edge_device(f1, EdgeOrder, min_power_threshold)

proactive_update_simulation(f, current_timestep, energy, temperature) ==
    LET f1 == proactive_edge_devices(f, EdgeOrder, current_timestep, energy, temperature)
        f2 == transfer_to_edge_device(f1, EdgeOrder, min_power_threshold)
    IN update_ongoing_transfers(f2, EdgeOrder)

(* ------------------- HeartbeatProtocol, Loadbalancer ------------------ *)
get_heartbeat(f, d) == f.status[d].state # "off"

(* variant: every other edge device counts as a partner *)
get_partner_edge_devices_any(f, d, max_svc) ==
    SelectSeq(EdgeOrder, LAMBDA p :
        /\ p # d
        /\ f.status[p].state # "off" /\ f.status[p].active
        /\ Len(f.services[p]) < max_svc)

(* the list of available partners in fleet order; <<>> stands for None *)
get_partner_edge_devices(f, d, max_svc) ==
    SelectSeq(EdgeOrder, LAMBDA p :
        /\ p \in partner_devices[d]
        /\ f.status[p].state # "off" /\ f.status[p].active
        /\ Len(f.services[p]) < max_svc)

get_online_partner_edge_devices(f, d) ==
    SelectSeq(EdgeOrder, LAMBDA p :
        /\ p \in partner_devices[d]
        /\ f.status[p].state = "on" /\ f.status[p].active)

HeartbeatProtocol_run(f, d, max_svc) ==
    LET heartbeat == get_heartbeat(f, d)
    IN [heartbeat |-> heartbeat,
        partner_edge_devices |->
            IF ~heartbeat THEN get_partner_edge_devices(f, d, max_svc) ELSE <<>>]

(* the loop of Loadbalancer.run over the online partners *)
RECURSIVE Loadbalancer_loop(_, _, _, _, _, _)
Loadbalancer_loop(f, d, num_services, partner_edge_devices, partners_acc, servs) ==
    IF partner_edge_devices = <<>>
    THEN [partner_devices |-> partners_acc, servs |-> servs]
    ELSE LET partner == Head(partner_edge_devices)
             max_svc == Max(0, specifications[partner].cpu_cores
                               - specifications[partner].reserved_cpu_cores)
             num == Max(0, num_services - max_svc)
         IN IF Len(f.services[partner]) < max_svc /\ get_heartbeat(f, partner)
            THEN Loadbalancer_loop(f, d, num_services, Tail(partner_edge_devices),
                                   Append(partners_acc, partner), Take(f.services[d], num))
            ELSE Loadbalancer_loop(f, d, num_services, Tail(partner_edge_devices),
                                   partners_acc, servs)

Loadbalancer_run(f, d, num_services) ==
    LET r == Loadbalancer_loop(f, d, num_services,
                               get_online_partner_edge_devices(f, d), <<>>, <<>>)
    IN IF r.partner_devices # <<>> /\ r.servs # <<>> THEN r
       ELSE [partner_devices |-> <<>>, servs |-> <<>>]

(* ---------------------------- ReactiveDevice -------------------------- *)
RECURSIVE checkpoint_services_to_server(_, _, _)
checkpoint_services_to_server(f, d, all_services) ==
    IF all_services = <<>> THEN f
    ELSE LET s == Head(all_services)
             g == IF f.service_server[s] = d
                  THEN assign_service_edge_device_to_server(f, d, s) ELSE f
         IN checkpoint_services_to_server(g, d, Tail(all_services))

(* variant: only the first service of the device is checkpointed *)
assign_checkpoint_edge_device_to_server_first(f, d, all_services) ==
    IF offloading = "model"
    THEN checkpoint_services_to_server(
             f, d, Take(SelectSeq(all_services, LAMBDA s : f.service_server[s] = d), 1))
    ELSE IF offloading = "data" /\ Len(f.temperature_measurement[d]) > 0
    THEN assign_data_to_server(f, d)
    ELSE f

assign_checkpoint_edge_device_to_server(f, d, all_services) ==
    IF offloading = "model" THEN checkpoint_services_to_server(f, d, all_services)
    ELSE IF offloading = "data" /\ Len(f.temperature_measurement[d]) > 0
    THEN assign_data_to_server(f, d)
    ELSE f

RECURSIVE checkpoint_services_to_edge_device_any(_, _, _, _)
checkpoint_services_to_edge_device_any(f, partner_edge_devices, all_services, max_svc) ==
    IF all_services = <<>> THEN f
    ELSE LET s == Head(all_services)
             candidates == partner_edge_devices
         IN IF f.service_server[s] = ServerId
            THEN IF candidates = <<>> THEN f
                 ELSE checkpoint_services_to_edge_device_any(
                          assign_service_server_to_edge_device(f, Head(candidates), s),
                          partner_edge_devices, Tail(all_services), max_svc)
            ELSE checkpoint_services_to_edge_device_any(
                     f, partner_edge_devices, Tail(all_services), max_svc)

RECURSIVE checkpoint_services_to_edge_device(_, _, _, _)
checkpoint_services_to_edge_device(f, partner_edge_devices, all_services, max_svc) ==
    IF all_services = <<>> THEN f
    ELSE LET s == Head(all_services)
             candidates == SelectSeq(partner_edge_devices,
                                     LAMBDA p : Len(f.services[p]) < max_svc)
         IN IF f.service_server[s] = ServerId
            THEN IF candidates = <<>> THEN f
                 ELSE checkpoint_services_to_edge_device(
                          assign_service_server_to_edge_device(f, Head(candidates), s),
                          partner_edge_devices, Tail(all_services), max_svc)
            ELSE checkpoint_services_to_edge_device(
                     f, partner_edge_devices, Tail(all_services), max_svc)

(* pick is the index random.choice draws *)
assign_checkpoint_server_to_edge_device(f, partner_edge_devices, all_services, max_svc, pick) ==
    IF offloading = "model"
    THEN checkpoint_services_to_edge_device(f, partner_edge_devices, all_services, max_svc)
    ELSE IF offloading = "data" /\ Len(f.temperature_measurement[ServerId]) > 0
    THEN assign_data_to_edge_device(
             f, partner_edge_devices[((pick - 1) % Len(partner_edge_devices)) + 1])
    ELSE f

(* -------------------------- SimulationOracle -------------------------- *)
RECURSIVE oracle_services(_, _, _)
oracle_services(f, d, all_services) ==
    IF all_services = <<>> THEN f
    ELSE LET s == Head(all_services)
             g == IF f.service_server[s] = d
                  THEN IF f.status[d].active THEN AIModel_run(f, s) ELSE AIModel_stop(f, s)
                  ELSE f
         IN oracle_services(g, d, Tail(all_services))

RECURSIVE oracle_edge_devices(_, _, _, _, _)
oracle_edge_devices(f, all_devices, current_timestep, energy, temperature) ==
    IF all_devices = <<>> THEN f
    ELSE LET d == Head(all_devices)
             f1 == modify_power(f, d, energy[d], power_required)
             f2 == modify_state(f1, d, default_min_power_required)
             f3 == collect_temperature(f2, d, current_timestep, temperature[d])
         IN oracle_edge_devices(oracle_services(f3, d, AllServices), Tail(all_devices),
                                current_timestep, energy, temperature)

(* the "server logic" loop: heartbeat and immediate moves to partners *)
RECURSIVE oracle_server_logic(_, _, _, _)
oracle_server_logic(f, all_devices, max_svc, pick) ==
    IF all_devices = <<>> THEN f
    ELSE LET d == Head(all_devices)
             hb == HeartbeatProtocol_run(f, d, max_svc)
             has_unit == IF offloading = "model" THEN Len(f.services[d]) > 0
                         ELSE Len(f.temperature_measurement[d]) > 0
             g == IF hb.partner_edge_devices # <<>> /\ has_unit
                  THEN assign_checkpoint_server_to_edge_device(
                           assign_checkpoint_edge_device_to_server(f, d, AllServices),
                           hb.partner_edge_devices, AllServices, max_svc, pick[d])
                  ELSE f
         IN oracle_server_logic(g, Tail(all_devices), max_svc, pick)

RECURSIVE oracle_load_balancing(_, _, _, _)
oracle_load_balancing(f, all_devices, max_svc, pick) ==
    IF all_devices = <<>> THEN f
    ELSE LET d == Head(all_devices)
             num_services == Len(f.services[d])
             lb == Loadbalancer_run(f, d, num_services)
             g == IF num_services > specifications[d].cpu_cores
                                    - specifications[d].reserved_cpu_cores
                     /\ lb.partner_devices # <<>>
                  THEN assign_checkpoint_server_to_edge_device(
                           assign_checkpoint_edge_device_to_server(f, d, lb.servs),
                           lb.partner_devices, lb.servs, max_svc, pick[d])
                  ELSE f
         IN oracle_load_balancing(g, Tail(all_devices), max_svc, pick)

oracle_update_simulation(f, current_timestep, energy, temperature, pick) ==
    LET f1 == oracle_edge_devices(f, EdgeOrder, current_timestep, energy, temperature)
        f2 == oracle_server_logic(f1, EdgeOrder, max_services, pick)
    IN IF loadbalancing /\ offloading = "model"
       THEN oracle_load_balancing(f2, EdgeOrder, max_services, pick)
       ELSE f2

(* ------------------------- SimulationReactive ------------------------- *)
(* simulation_reactive.py is not part of the sources at hand; the reactive
   tick follows the specification: the oracle's decision surface without
   the load-balancing post-pass *)
reactive_update_simulation(f, current_timestep, energy, temperature, pick) ==
    LET f1 == oracle_edge_devices(f, EdgeOrder, current_timestep, energy, temperature)
    IN oracle_server_logic(f1, EdgeOrder, max_services, pick)

(* --------------------------- the state machine ------------------------ *)
NeutralTransfer ==
    [transfer |-> FALSE, transfer_duration |-> 0, transfer_service_ids |-> <<>>,
     transfer_to_device_id |-> 0, transfer_from_device_id |-> 0,
     transfer_succeded |-> 0, transfer_failed |-> 0]

NewService ==
    [state |-> "idle", trained |-> FALSE, actual_training_time |-> 0,
     actual_prediction_time |-> 0, predictions_counter |-> 0, program_counter |-> 0]

(* initial placements of the services (the topology file) *)
Topologies ==
    { [d \in Devices |-> IF d = 1 THEN <<1, 2>> ELSE <<>>],
      [d \in Devices |-> IF d = 1 THEN <<1>> ELSE IF d = 2 THEN <<2>> ELSE <<>>],
      [d \in Devices |-> IF d = ServerId THEN <<1, 2>> ELSE <<>>] }

Statuses == { [state |-> "on", active |-> TRUE], [state |-> "critical", active |-> TRUE],
              [state |-> "off", active |-> FALSE] }

(* HarvesterBattery.__init__ with capacity in hundredths of a Wh *)
BatteryInit(capacity, initial_charge, depth_of_discharge, eff) ==
    /\ max_capacity_wh = capacity
    /\ bsoc = [d \in EdgeIds |-> RoundDiv(capacity * initial_charge, 100)]
    /\ min_bsoc = RoundDiv(capacity * depth_of_discharge, 100)
    /\ efficiency = eff

InitFleetOf(topologies) ==
    /\ steps = 0
    /\ actual_power = [d \in EdgeIds |-> 0]
    /\ power_source = [d \in EdgeIds |-> "none"]
    /\ status = [d \in EdgeIds |-> [state |-> "on", active |-> TRUE]]
    /\ services \in topologies
    /\ service_server = [s \in UNION {ToSet(services[d]) : d \in Devices} |->
                            CHOOSE d \in Devices : s \in ToSet(services[d])]
    /\ service = [s \in ServiceIds |-> NewService]
    /\ temperature_measurement = [d \in Devices |-> <<>>]
    /\ transfer_model = [d \in Devices |-> NeutralTransfer]
    /\ events = [d \in EdgeIds |-> <<>>]
    /\ initiated_at = [d \in EdgeIds |-> 0]
    /\ uploaded_by = [s \in ServiceIds |-> 0]
    /\ stayed_critical = [s \in ServiceIds |-> FALSE]

InitFleet == InitFleetOf(Topologies)

InitTopology ==
    /\ max_services = DefaultMaxServices
    /\ specifications = DefaultSpecifications
    /\ partner_devices = AllPartners

InitBattery ==
    IF battery_mode
    THEN BatteryInit(5, 60, 20, 95)
    ELSE BatteryInit(0, 0, 0, 0)

(* ----------------------------- utils.config --------------------------- *)
(* a value of the configuration file with its Python type; Absent is a key
   that the file does not hold *)
Absent == [type |-> "absent", n |-> 0, s |-> "", b |-> FALSE]
IntV(n) == [type |-> "int", n |-> n, s |-> "", b |-> FALSE]
StrV(s) == [type |-> "str", n |-> 0, s |-> s, b |-> FALSE]
BoolV(b) == [type |-> "bool", n |-> IF b THEN 1 ELSE 0, s |-> "", b |-> b]

(* the configuration file of a run of the given strategy: every key present
   and well typed *)
ConfigOf(strat, offl, lb, bat, max_svc) ==
    [info |-> BoolV(TRUE), debug |-> BoolV(FALSE), offloading |-> StrV(offl),
     topology |-> StrV("test"), strategy |-> StrV(strat),
     loadbalancing |-> BoolV(lb), compute_energydata |-> BoolV(FALSE),
     simulation |-> [present |-> TRUE, steps |-> IntV(MaxSteps)],
     proactive |-> [present |-> TRUE,
                    min_power_threshold |-> IntV(min_power_threshold)],
     reactive |-> [present |-> TRUE, max_services_per_device |-> IntV(max_svc)],
     oracle |-> [present |-> TRUE, max_services_per_device |-> IntV(max_svc)],
     battery |-> [present |-> TRUE, enabled |-> BoolV(bat),
                  power_required |-> IntV(power_required)]]

(* a simulation that main has constructed and is running *)
InitRun ==
    /\ config = ConfigOf(strategy, offloading, loadbalancing, battery_mode, max_services)
    /\ pc = "run"
    /\ result = "none"

Init ==
    /\ strategy \in {"proactive", "oracle", "reactive"}
    /\ offloading \in {"model", "data"}
    /\ loadbalancing \in BOOLEAN
    /\ battery_mode \in BOOLEAN
    /\ transfer_time \in IF strategy = "proactive" THEN [EdgeIds -> 1..MaxTransferTime]
                         ELSE {[d \in EdgeIds |-> 1]}
    /\ InitTopology
    /\ InitBattery
    /\ InitFleet
    /\ InitRun

Has(seq, e) == \E i \in 1..Len(seq) : seq[i] = e

(* commit the fleet g reached by one tick, with the bookkeeping of the
   history variables (events, initiated_at, uploaded_by, stayed_critical) *)
Commit(g) ==
    /\ steps' = steps + 1
    /\ actual_power' = g.actual_power
    /\ power_source' = g.power_source
    /\ status' = g.status
    /\ services' = g.services
    /\ service_server' = g.service_server
    /\ service' = g.service
    /\ temperature_measurement' = g.temperature_measurement
    /\ transfer_model' = g.transfer_model
    /\ bsoc' = g.bsoc
    /\ events' = g.events
    /\ initiated_at' = [d \in EdgeIds |->
           IF Has(g.events[d], "upload_initiated") \/ Has(g.events[d], "download_initiated")
           THEN steps + 1 ELSE initiated_at[d]]
    /\ uploaded_by' = [s \in ServiceIds |->
           IF service_server[s] # ServerId /\ g.service_server[s] = ServerId
           THEN service_server[s] ELSE uploaded_by[s]]
    /\ stayed_critical' = [s \in ServiceIds |->
           IF uploaded_by'[s] = 0 THEN FALSE
           ELSE /\ g.status[uploaded_by'[s]].state = "critical"
                /\ (uploaded_by[s] = uploaded_by'[s] => stayed_critical[s])]
    /\ UNCHANGED <<cfgvars, mainvars>>

ProactiveTick ==
    /\ strategy = "proactive"
    /\ steps < MaxSteps
    /\ \E energy \in [EdgeIds -> EnergyData], temperature \in [EdgeIds -> Temperatures] :
          Commit(proactive_update_simulation(
                     [Fleet EXCEPT !.events = [d \in EdgeIds |-> <<>>]],
                     steps + 1, energy, temperature))

OracleTick ==
    /\ strategy = "oracle"
    /\ steps < MaxSteps
    /\ \E energy \in [EdgeIds -> EnergyData], temperature \in [EdgeIds -> Temperatures],
          pick \in [EdgeIds -> 1..MaxPick] :
          Commit(oracle_update_simulation(
                     [Fleet EXCEPT !.events = [d \in EdgeIds |-> <<>>]],
                     steps + 1, energy, temperature, pick))

ReactiveTick ==
    /\ strategy = "reactive"
    /\ steps < MaxSteps
    /\ \E energy \in [EdgeIds -> EnergyData], temperature \in [EdgeIds -> Temperatures],
          pick \in [EdgeIds -> 1..MaxPick] :
          Commit(reactive_update_simulation(
                     [Fleet EXCEPT !.events = [d \in EdgeIds |-> <<>>]],
                     steps + 1, energy, temperature, pick))

Next == ProactiveTick \/ OracleTick \/ ReactiveTick

Spec == Init /\ [][Next]_vars

(* ---------------- the battery alone, over its parameters -------------- *)
(* battery parameterisations: capacity in hundredths of a Wh,
   initial_charge, depth_of_discharge and efficiency in percent *)
BatteryCapacities == {5, 10}
InitialCharges == {0, 50, 100}
DepthsOfDischarge == {0, 20, 50}
Efficiencies == {50, 95, 100}
RequiredPowers == {10, 20, 40, 100}

InitBatteryAlone ==
    /\ strategy = "proactive"
    /\ offloading = "model"
    /\ loadbalancing = FALSE
    /\ battery_mode = TRUE
    /\ transfer_time = [d \in EdgeIds |-> 1]
    /\ \E capacity \in BatteryCapacities, initial_charge \in InitialCharges,
          depth_of_discharge \in DepthsOfDischarge, eff \in Efficiencies :
          BatteryInit(capacity, initial_charge, depth_of_discharge, eff)
    /\ InitTopology
    /\ InitFleet
    /\ InitRun

(* one call of HarvesterBattery.charge_battery *)
ChargeBattery ==
    \E d \in EdgeIds, e \in EnergyData :
        /\ bsoc' = charge_battery(Fleet, d, e).bsoc
        /\ UNCHANGED <<cfgvars, mainvars, steps, actual_power, power_source,
                       status, services,
                       service_server, service, temperature_measurement,
                       transfer_model, events, initiated_at, uploaded_by,
                       stayed_critical>>

(* one call of HarvesterBattery.consume_energy *)
ConsumeEnergy ==
    \E d \in EdgeIds, required_power_w \in RequiredPowers :
        /\ bsoc' = consume_energy(Fleet, d, required_power_w).fleet.bsoc
        /\ UNCHANGED <<cfgvars, mainvars, steps, actual_power, power_source,
                       status, services,
                       service_server, service, temperature_measurement,
                       transfer_model, events, initiated_at, uploaded_by,
                       stayed_critical>>

NextBattery == ChargeBattery \/ ConsumeEnergy

SpecBattery == InitBatteryAlone /\ [][NextBattery]_vars

(* ------- the oracle and reactive strategies over their topologies ----- *)
MaxServicesValues == {1, 2}
SpecificationSets ==
    { DefaultSpecifications,
      [d \in EdgeIds |-> [cpu_cores |-> 2, reserved_cpu_cores |-> 1]] }
PartnerTopologies ==
    { AllPartners,
      [d \in EdgeIds |-> IF d = 1 THEN {2} ELSE {}] }
LoadbalancingTopologies ==
    { [d \in Devices |-> IF d = 1 THEN <<1, 2, 3>> ELSE <<>>] }

InitOracle ==
    /\ strategy \in {"oracle", "reactive"}
    /\ offloading \in {"model", "data"}
    /\ loadbalancing \in IF strategy = "oracle" THEN BOOLEAN ELSE {FALSE}
    /\ battery_mode = FALSE
    /\ transfer_time = [d \in EdgeIds |-> 1]
    /\ max_services \in MaxServicesValues
    /\ specifications \in IF loadbalancing THEN SpecificationSets
                          ELSE {DefaultSpecifications}
    /\ partner_devices \in PartnerTopologies
    /\ InitBattery
    /\ InitFleetOf(IF loadbalancing /\ offloading = "model"
                   THEN Topologies \cup LoadbalancingTopologies ELSE Topologies)
    /\ InitRun

NextOracle == OracleTick \/ ReactiveTick

SpecOracle == InitOracle /\ [][NextOracle]_vars

(* ---- the heartbeat pass over a fleet of three services, two devices ---- *)
HeartbeatTopologies ==
    { [d \in Devices |-> IF d = 1 THEN <<1, 2>> ELSE IF d = 2 THEN <<3>> ELSE <<>>],
      [d \in Devices |-> IF d = 1 THEN <<2, 3>> ELSE IF d = 2 THEN <<1>> ELSE <<>>] }

InitHeartbeat ==
    /\ strategy \in {"oracle", "reactive"}
    /\ offloading = "model"
    /\ loadbalancing = FALSE
    /\ battery_mode = FALSE
    /\ transfer_time = [d \in EdgeIds |-> 1]
    /\ max_services \in MaxServicesValues
    /\ specifications = DefaultSpecifications
    /\ partner_devices = AllPartners
    /\ InitBattery
    /\ InitFleetOf(HeartbeatTopologies)
    /\ InitRun

NextHeartbeat == OracleTick \/ ReactiveTick

SpecHeartbeat == InitHeartbeat /\ [][NextHeartbeat]_vars

(* ------- model offloading over the measured temperature values -------- *)
(* values random.randint(0, 40) can return *)
MeasuredTemperatures == {0, 40}
(* simulation.steps of these runs *)
MeasuredSteps == 3

MeasuredTopologies ==
    { [d \in Devices |-> IF d = 1 THEN <<1>> ELSE IF d = 2 THEN <<2>> ELSE <<>>] }

update_simulation(f, current_timestep, energy, temperature, pick) ==
    IF strategy = "proactive"
    THEN proactive_update_simulation(f, current_timestep, energy, temperature)
    ELSE IF strategy = "oracle"
    THEN oracle_update_simulation(f, current_timestep, energy, temperature, pick)
    ELSE reactive_update_simulation(f, current_timestep, energy, temperature, pick)

InitMeasured ==
    /\ strategy \in {"proactive", "oracle", "reactive"}
    /\ offloading = "model"
    /\ loadbalancing = FALSE
    /\ battery_mode \in BOOLEAN
    /\ transfer_time = [d \in EdgeIds |-> 1]
    /\ InitTopology
    /\ InitBattery
    /\ InitFleetOf(MeasuredTopologies)
    /\ InitRun

MeasuredTick ==
    /\ steps < MeasuredSteps
    /\ \E energy \in [EdgeIds -> EnergyData],
          temperature \in [EdgeIds -> MeasuredTemperatures],
          pick \in [EdgeIds -> 1..MaxPick] :
          Commit(update_simulation(
                     [Fleet EXCEPT !.events = [d \in EdgeIds |-> <<>>]],
                     steps + 1, energy, temperature, pick))

NextMeasured == MeasuredTick

SpecMeasured == InitMeasured /\ [][NextMeasured]_vars

(* ------- the proactive strategy around the power threshold ------------ *)
(* trace entries below, at and above min_power_threshold *)
ThresholdEnergyData ==
    { [solar |-> 0, wind |-> 0], [solar |-> min_power_threshold - 1, wind |-> 0],
      [solar |-> 0, wind |-> min_power_threshold],
      [solar |-> min_power_threshold + 1, wind |-> 0] }

InitThreshold ==
    /\ strategy = "proactive"
    /\ offloading \in {"model", "data"}
    /\ loadbalancing \in BOOLEAN
    /\ battery_mode = FALSE
    /\ transfer_time = [d \in EdgeIds |-> 1]
    /\ InitTopology
    /\ InitBattery
    /\ InitFleet
    /\ InitRun

ThresholdTick ==
    /\ steps < MaxSteps
    /\ \E energy \in [EdgeIds -> ThresholdEnergyData],
          temperature \in [EdgeIds -> Temperatures] :
          Commit(proactive_update_simulation(
                     [Fleet EXCEPT !.events = [d \in EdgeIds |-> <<>>]],
                     steps + 1, energy, temperature))

NextThreshold == ThresholdTick

SpecThreshold == InitThreshold /\ [][NextThreshold]_vars

(* ------- the proactive strategy with transfers of several ticks ------- *)
InitLongTransfer ==
    /\ strategy = "proactive"
    /\ offloading \in {"model", "data"}
    /\ loadbalancing \in BOOLEAN
    /\ battery_mode \in BOOLEAN
    /\ transfer_time = [d \in EdgeIds |-> MaxTransferTime + 1]
    /\ InitTopology
    /\ InitBattery
    /\ InitFleet
    /\ InitRun

NextLongTransfer == ProactiveTick

SpecLongTransfer == InitLongTransfer /\ [][NextLongTransfer]_vars

(* ------------------- main over its configuration files ---------------- *)
RequiredKeys ==
    {"info", "debug", "offloading", "topology", "strategy", "loadbalancing",
     "compute_energydata"}

(* isinstance(v, int): a Python bool is an int *)
IsInt(v) == v.type \in {"int", "bool"}
(* the truth value Python gives v *)
Truthy(v) == (IsInt(v) /\ v.n # 0) \/ (v.type = "str" /\ v.s # "")

(* Config.validate: "ok", or the exception that leaves it *)
validate(c) ==
    IF \E key \in RequiredKeys : c[key] = Absent THEN "ValueError"
    ELSE IF ~c.simulation.present \/ c.simulation.steps = Absent THEN "ValueError"
    ELSE IF ~c.proactive.present THEN "KeyError"
    ELSE IF c.proactive.min_power_threshold = Absent THEN "ValueError"
    ELSE IF ~c.reactive.present \/ c.reactive.max_services_per_device = Absent
         THEN "ValueError"
    ELSE IF ~c.oracle.present \/ c.oracle.max_services_per_device = Absent
         THEN "ValueError"
    ELSE IF c.offloading \notin {StrV("model"), StrV("data")} THEN "ValueError"
    ELSE IF c.topology \notin {StrV("test"), StrV("prod")} THEN "ValueError"
    ELSE IF c.strategy \notin {StrV("reactive"), StrV("proactive"), StrV("oracle")}
         THEN "ValueError"
    ELSE IF c.loadbalancing.type # "bool" THEN "ValueError"
    ELSE IF c.compute_energydata.type # "bool" THEN "ValueError"
    ELSE IF ~IsInt(c.simulation.steps) \/ c.simulation.steps.n <= 0 THEN "ValueError"
    ELSE IF ~IsInt(c.proactive.min_power_threshold)
            \/ c.proactive.min_power_threshold.n <= 0 THEN "ValueError"
    ELSE IF ~IsInt(c.reactive.max_services_per_device)
            \/ c.reactive.max_services_per_device.n <= 0 THEN "ValueError"
    ELSE IF ~IsInt(c.oracle.max_services_per_device)
            \/ c.oracle.max_services_per_device.n <= 0 THEN "ValueError"
    ELSE IF ~c.battery.present \/ c.battery.enabled = Absent THEN "KeyError"
    ELSE IF ~Truthy(c.battery.enabled) THEN "ok"
    ELSE IF c.battery.power_required = Absent THEN "KeyError"
    ELSE IF ~IsInt(c.battery.power_required) THEN "TypeError"
    ELSE IF c.proactive.min_power_threshold.n >= c.battery.power_required.n
         THEN "ValueError"
    ELSE "ok"

(* the configurations of the valid runs: strategy, offloading, loadbalancing
   and battery varied over the complete configuration file *)
ValidConfigs ==
    { ConfigOf(strat, offl, lb, bat, DefaultMaxServices) :
        strat \in {"reactive", "proactive", "oracle"}, offl \in {"model", "data"},
        lb \in BOOLEAN, bat \in BOOLEAN }

BaseConfig == ConfigOf("proactive", "model", FALSE, TRUE, DefaultMaxServices)

(* the complete configuration file with one entry missing, of a wrong type,
   out of range or outside the allowed strings *)
InvalidConfigs ==
    { [BaseConfig EXCEPT ![key] = Absent] : key \in RequiredKeys }
    \cup { [BaseConfig EXCEPT ![section].present = FALSE] :
             section \in {"simulation", "proactive", "reactive", "oracle", "battery"} }
    \cup { [BaseConfig EXCEPT !.simulation.steps = v] :
             v \in {Absent, IntV(0), IntV(0 - 1), StrV("ten")} }
    \cup { [BaseConfig EXCEPT !.proactive.min_power_threshold = v] :
             v \in {Absent, IntV(0), StrV("low"), IntV(power_required),
                    IntV(power_required + 1)} }
    \cup { [BaseConfig EXCEPT !.reactive.max_services_per_device = v] :
             v \in {Absent, IntV(0), StrV("one")} }
    \cup { [BaseConfig EXCEPT !.oracle.max_services_per_device = v] :
             v \in {Absent, IntV(0), StrV("one")} }
    \cup { [BaseConfig EXCEPT !.battery.power_required = v] :
             v \in {Absent, StrV("forty")} }
    \cup { [BaseConfig EXCEPT !.battery.enabled = Absent] }
    \cup { [BaseConfig EXCEPT !.offloading = StrV("invalid_offloading")],
           [BaseConfig EXCEPT !.strategy = StrV("invalid_strategy")],
           [BaseConfig EXCEPT !.topology = StrV("lab")],
           [BaseConfig EXCEPT !.loadbalancing = StrV("yes")],
           [BaseConfig EXCEPT !.compute_energydata = IntV(1)] }

MainTopologies == { [d \in Devices |-> IF d = 1 THEN <<1, 2>> ELSE <<>>] }

fleetvars == <<steps, actual_power, power_source, status, services, service_server,
               service, temperature_measurement, transfer_model, bsoc, events,
               initiated_at, uploaded_by, stayed_critical>>

(* main is entered with the configuration file; the fleet is the one of the
   topology file, which no step before the first tick changes *)
InitMain ==
    /\ config \in ValidConfigs \cup InvalidConfigs
    /\ pc = "main"
    /\ result = "none"
    /\ strategy = config.strategy.s
    /\ offloading = config.offloading.s
    /\ loadbalancing = config.loadbalancing.b
    /\ battery_mode = (config.battery.present /\ config.battery.enabled.b)
    /\ transfer_time = [d \in EdgeIds |-> 1]
    /\ InitTopology
    /\ InitBattery
    /\ InitFleetOf(MainTopologies)

(* a criterion that stops the scheduler one step early *)
stopping_criterion_early == steps = MaxSteps - 1

(* SimulationBase.stopping_criterion *)
stopping_criterion == steps = MaxSteps

(* main up to simulation.run(): a ValueError of validate is caught, reported
   and answered with False; any other exception leaves main *)
MainValidate ==
    /\ pc = "main"
    /\ LET outcome == validate(config)
       IN IF outcome = "ok"
          THEN pc' = "run" /\ result' = result
          ELSE /\ pc' = "done"
               /\ result' = IF outcome = "ValueError" THEN "False" ELSE outcome
    /\ UNCHANGED <<cfgvars, fleetvars>>

(* one step of Simulator.run_model *)
RunModel ==
    /\ pc = "run"
    /\ ~stopping_criterion
    /\ (ProactiveTick \/ OracleTick \/ ReactiveTick)

(* run_model has stopped; simulation.run() returns and main returns True *)
MainReturn ==
    /\ pc = "run"
    /\ stopping_criterion
    /\ pc' = "done"
    /\ result' = "True"
    /\ UNCHANGED <<cfgvars, fleetvars>>

NextMain == MainValidate \/ RunModel \/ MainReturn

SpecMain == InitMain /\ [][NextMain]_vars

(* ------------------------------ properties ---------------------------- *)
Count(seq, x) == Cardinality({i \in 1..Len(seq) : seq[i] = x})
Last(seq) == seq[Len(seq)]
Proactive == strategy = "proactive"

(* C1: after every tick, in every strategy, each service is listed exactly
   once, in the services list of exactly one device (edge device or server),
   and service.server is that device *)
C1_ExactlyOneOwner ==
    \A s \in ServiceIds :
        \E d \in Devices :
            /\ Count(services[d], s) = 1
            /\ service_server[s] = d
            /\ \A e \in Devices \ {d} : Count(services[e], s) = 0

(* a service was moved off its device and has arrived on another device *)
C1_Witness ==
    \E s \in ServiceIds :
        /\ uploaded_by[s] # 0
        /\ service_server[s] \notin {ServerId, uploaded_by[s]}

(* C2: proactive model strategy: no service id is in the
   transfer_service_ids (pending ids) of two different devices *)
C2_PendingDisjoint ==
    (Proactive /\ offloading = "model") =>
        \A d1 \in EdgeIds : \A d2 \in EdgeIds \ {d1} :
            ToSet(transfer_model[d1].transfer_service_ids)
                \cap ToSet(transfer_model[d2].transfer_service_ids) = {}

(* C3: after every tick, for every device, at most one of
   transfer_to_device_id and transfer_from_device_id is non-zero *)
C3_OneDirection ==
    \A d \in Devices :
        ~(transfer_model[d].transfer_to_device_id # 0
          /\ transfer_model[d].transfer_from_device_id # 0)

(* one device uploads while another one downloads *)
C3_Witness ==
    \E d1 \in EdgeIds : \E d2 \in EdgeIds :
        /\ transfer_model[d1].transfer_to_device_id # 0
        /\ transfer_model[d2].transfer_from_device_id # 0

Neutral(d) ==
    /\ ~transfer_model[d].transfer
    /\ transfer_model[d].transfer_duration = 0
    /\ transfer_model[d].transfer_to_device_id = 0
    /\ transfer_model[d].transfer_from_device_id = 0

Resolved(d) ==
    /\ events[d] # <<>>
    /\ Last(events[d]) \in {"upload_completed", "upload_failed",
                            "download_completed", "download_failed"}

(* C4: after every tick the in-flight flag is true iff one of the direction
   slots is non-zero, and a tick that completed or failed the device's
   transfer leaves flag, duration and slots reset together *)
C4_FlagIffSlot ==
    /\ \A d \in Devices :
          transfer_model[d].transfer <=>
              (transfer_model[d].transfer_to_device_id # 0
               \/ transfer_model[d].transfer_from_device_id # 0)
    /\ \A d \in EdgeIds : Resolved(d) => Neutral(d)

(* a download has completed on one device while another is in flight *)
C4_Witness ==
    \E d1 \in EdgeIds : \E d2 \in EdgeIds :
        /\ Has(events[d1], "download_completed")
        /\ transfer_model[d2].transfer

(* C5: after every tick a device in flight has
   0 <= transfer_duration <= transfer_time, any other has duration 0 *)
C5_DurationBounds ==
    \A d \in EdgeIds :
        IF transfer_model[d].transfer
        THEN /\ 0 <= transfer_model[d].transfer_duration
             /\ transfer_model[d].transfer_duration <= transfer_time[d]
        ELSE transfer_model[d].transfer_duration = 0

(* a transfer is part-way, and another device's transfer was just resolved *)
C5_Witness ==
    \E d1 \in EdgeIds : \E d2 \in EdgeIds :
        /\ transfer_model[d1].transfer
        /\ transfer_model[d1].transfer_duration >= 1
        /\ Resolved(d2)

(* C6: after every tick every edge device has state = off iff active = false,
   with and without a battery *)
C6_OffIffInactive ==
    steps >= 1 =>
        \A d \in EdgeIds : (status[d].state = "off") <=> (status[d].active = FALSE)

(* a battery-backed device is critical while another one is off *)
C6_Witness ==
    /\ battery_mode
    /\ \E d1 \in EdgeIds : \E d2 \in EdgeIds :
          /\ status[d1].state = "critical" /\ status[d1].active
          /\ status[d2].state = "off" /\ ~status[d2].active
          /\ steps >= 1

(* C7: for every battery parameterisation and any positive required power,
   after any sequence of charge and consume operations the state of charge
   of every battery-backed device is within 0 and max_capacity_wh *)
C7_SocWithinCapacity ==
    battery_mode =>
        \A d \in EdgeIds : 0 <= bsoc[d] /\ bsoc[d] <= max_capacity_wh

DownloadsFailed == Cardinality({e \in EdgeIds : Has(events[e], "download_failed")})
DownloadsCompleted == Cardinality({e \in EdgeIds : Has(events[e], "download_completed")})

(* C8: proactive: a tick in which a device has no power never completes a
   transfer of that device (no completion, its succeeded counter, services
   and buffer unchanged, the server's succeeded counter only counts the
   downloads completed by others); a transfer that was in flight is failed
   in that very tick, exactly once (one failed event, one increment of the
   failed counter, record reset); a later failure in the window belongs to
   an upload initiated anew in its own tick *)
C8_ZeroPowerFailsOnce ==
    [][Proactive =>
        /\ transfer_model'[ServerId].transfer_succeded =
               transfer_model[ServerId].transfer_succeded + DownloadsCompleted'
        /\ transfer_model'[ServerId].transfer_failed =
               transfer_model[ServerId].transfer_failed + DownloadsFailed'
        /\ \A d \in EdgeIds : actual_power'[d] = 0 =>
              /\ ~Has(events'[d], "upload_completed")
              /\ ~Has(events'[d], "download_completed")
              /\ transfer_model'[d].transfer_succeded = transfer_model[d].transfer_succeded
              /\ services'[d] = services[d]
              /\ temperature_measurement'[d] = temperature_measurement[d]
              /\ transfer_model'[d].transfer_failed =
                     transfer_model[d].transfer_failed + Count(events'[d], "upload_failed")
              /\ ~transfer_model'[d].transfer
              /\ transfer_model'[d].transfer_duration = 0
              /\ transfer_model'[d].transfer_to_device_id = 0
              /\ transfer_model'[d].transfer_from_device_id = 0
              /\ IF transfer_model[d].transfer
                 THEN events'[d] = IF transfer_model[d].transfer_to_device_id # 0
                                   THEN <<"upload_failed">> ELSE <<"download_failed">>
                 ELSE events'[d] \in {<<>>, <<"upload_initiated", "upload_failed">>}
    ]_vars

(* an upload and a download that were in flight have failed for lack of power *)
C8_Witness ==
    /\ Proactive
    /\ \E d1 \in EdgeIds : \E d2 \in EdgeIds :
          /\ events[d1] = <<"upload_failed">> /\ actual_power[d1] = 0
          /\ events[d2] = <<"download_failed">> /\ actual_power[d2] = 0

(* C9 as stated: proactive: an upload initiated at tick t completes at tick
   t + transfer_time *)
C9_Original ==
    Proactive =>
        \A d \in EdgeIds :
            Has(events[d], "upload_completed") =>
                steps = initiated_at[d] + transfer_time[d]

(* C9: proactive: an upload initiated at tick t on a device whose power
   stays non-zero completes (record reset, in the model strategy no service
   left on the device) exactly at tick t + transfer_time - 1, the initiating
   tick counting as the first one, and not earlier; it is only ever failed
   in a tick without power *)
C9_UploadCompletesAt ==
    Proactive =>
        \A d \in EdgeIds :
            /\ Has(events[d], "upload_completed") =>
                  /\ steps = initiated_at[d] + transfer_time[d] - 1
                  /\ Neutral(d)
                  /\ transfer_model[d].transfer_succeded >= 1
                  /\ offloading = "model" => services[d] = <<>>
                  /\ offloading = "data" => temperature_measurement[d] = <<>>
            /\ (transfer_model[d].transfer /\ transfer_model[d].transfer_to_device_id # 0) =>
                  /\ transfer_model[d].transfer_duration = steps - initiated_at[d] + 1
                  /\ transfer_model[d].transfer_duration < transfer_time[d]
            /\ Has(events[d], "upload_failed") => actual_power[d] = 0

(* an upload that took more than one tick has completed and its services
   are on the server *)
C9_Witness ==
    /\ Proactive /\ offloading = "model"
    /\ \E d \in EdgeIds :
          /\ events[d] = <<"upload_completed">>
          /\ transfer_time[d] = MaxTransferTime
          /\ \E s \in ServiceIds : uploaded_by[s] = d /\ service_server[s] = ServerId

(* C10 as stated (second half): proactive: as long as the device that
   uploaded a service has been critical ever since, the server holds it *)
C10_Original ==
    Proactive =>
        \A s \in ServiceIds :
            (uploaded_by[s] # 0 /\ stayed_critical[s]) => service_server[s] = ServerId

(* C10: proactive: a tick changes no field of a service that the server
   holds; such a service leaves the server only through a download completed
   in that tick by the device that then holds it; a download is only
   initiated by a device in state on, so the service does not return to an
   uploader that has been critical ever since *)
C10_ServerOwnedFrozen ==
    [][Proactive =>
        /\ \A s \in ServiceIds : s \in ToSet(services[ServerId]) =>
              /\ service'[s] = service[s]
              /\ s \notin ToSet(services'[ServerId]) =>
                    \E d \in EdgeIds : /\ Has(events'[d], "download_completed")
                                       /\ s \in ToSet(services'[d])
        /\ \A d \in EdgeIds :
              Has(events'[d], "download_initiated") => status'[d].state = "on"
        /\ \A s \in ServiceIds :
              stayed_critical'[s] => service_server'[s] # uploaded_by'[s]
    ]_vars

(* a trained service has been on the server for more than a tick while its
   uploader stayed critical, and the other service has left the server *)
C10_Witness ==
    /\ Proactive
    /\ \E s \in ServiceIds : \E o \in ServiceIds \ {s} :
          /\ service_server[s] = ServerId
          /\ stayed_critical[s]
          /\ ~Has(events[uploaded_by[s]], "upload_completed")
          /\ service[s].program_counter >= 1
          /\ uploaded_by[o] # 0 /\ service_server[o] \notin {ServerId, uploaded_by[o]}

(* C11: a battery whose state of charge is exactly min_bsoc refuses every
   positive required power: consume_energy returns false and the device
   gets actual_power = 0 in that tick *)
C11_RefusedAtFloor ==
    battery_mode =>
        \A d \in EdgeIds : \A required_power_w \in RequiredPowers :
            bsoc[d] = min_bsoc =>
                /\ ~consume_energy(Fleet, d, required_power_w).success
                /\ modify_power_with_battery(Fleet, d, [solar |-> 0, wind |-> 0],
                                             required_power_w).actual_power[d] = 0

Reactive == strategy \in {"reactive", "oracle"}
Cap(d) == specifications[d].cpu_cores - specifications[d].reserved_cpu_cores
LoadBalanced == strategy = "oracle" /\ loadbalancing /\ offloading = "model"
IsPrefix(a, b) == Len(a) <= Len(b) /\ SubSeq(b, 1, Len(a)) = a

(* C12: reactive and oracle: a tick moves no service and no measurement
   buffer off a device that has no partner, or none that is eligible in that
   tick (every partner is off after the power update, or is full and cannot
   be a target of the load balancer either), whatever the state of the
   device *)
C12_NoPartnerNoOffload ==
    [][Reactive =>
        \A d \in EdgeIds :
            (\A p \in partner_devices[d] :
                \/ status'[p].state = "off"
                \/ ~status'[p].active
                \/ /\ Len(services[p]) >= max_services
                   /\ ~(LoadBalanced /\ status'[p].state = "on"))
            => /\ \A s \in ToSet(services[d]) :
                     s \in ToSet(services'[d]) /\ service_server'[s] = d
               /\ IsPrefix(temperature_measurement[d], temperature_measurement'[d])
    ]_vars

(* a device without partners and a device whose only partner is off are
   both off and still hold their services and their measurements *)
C12_Witness ==
    /\ Reactive /\ steps >= 2
    /\ \E d1 \in EdgeIds : \E d2 \in EdgeIds :
          /\ partner_devices[d1] = {} /\ partner_devices[d2] = {d1}
          /\ status[d1].state = "off" /\ status[d2].state = "off"
          /\ services[d1] # <<>> /\ services[d2] # <<>>
          /\ temperature_measurement[d1] # <<>>
          /\ temperature_measurement[d2] # <<>>

RECURSIVE FreePlaces(_)
FreePlaces(S) ==
    IF S = {} THEN 0
    ELSE LET p == CHOOSE x \in S : TRUE
         IN Max(0, max_services - Len(services[p])) + FreePlaces(S \ {p})

(* C13: reactive and oracle, model offloading: when a device A is off after
   the power update of a tick, the server holds no services and the partners
   of A that are not off and active have together at least |services(A)|
   free places below max_services, then after that tick A hosts no service
   and every service it hosted is owned by one of those partners *)
C13_OffDeviceEmptied ==
    [][(Reactive /\ offloading = "model") =>
        \A A \in EdgeIds :
            LET partners == {p \in partner_devices[A] :
                                status'[p].state # "off" /\ status'[p].active}
            IN (/\ status'[A].state = "off"
                /\ services[ServerId] = <<>>
                /\ services[A] # <<>>
                /\ FreePlaces(partners) >= Len(services[A]))
               => /\ services'[A] = <<>>
                  /\ \A s \in ToSet(services[A]) :
                        /\ service_server'[s] \in partners
                        /\ s \in ToSet(services'[service_server'[s]])
    ]_vars

(* a device is off and empty, its partner is not off and hosts the two
   services that ran on the device and were stopped and moved in this tick;
   the server holds none *)
C13_Witness ==
    /\ Reactive /\ offloading = "model" /\ steps >= 1
    /\ services[ServerId] = <<>>
    /\ \E A \in EdgeIds : \E B \in partner_devices[A] :
          /\ status[A].state = "off" /\ services[A] = <<>>
          /\ status[B].state # "off" /\ Len(services[B]) = 2
          /\ \A s \in ToSet(services[B]) :
                service[s].state = "stopped" /\ service[s].program_counter >= 1

AllOn == \A e \in EdgeIds : status[e].state = "on"

(* C14: oracle with load balancing, model offloading: after the
   load-balancing pass of a tick every device that was overloaded
   (|services| > cpu_cores - reserved_cpu_cores) and had an online partner
   with free capacity hosts at most cpu_cores - reserved_cpu_cores services
   (ticks in which every device is on, so that the pass starts from the
   services the tick started with) *)
C14_OverloadRelieved ==
    [][(LoadBalanced /\ AllOn') =>
        \A d \in EdgeIds :
            (/\ Len(services[d]) > Cap(d)
             /\ \E p \in partner_devices[d] : Len(services[p]) < Cap(p))
            => Len(services'[d]) <= Cap(d)
    ]_vars

(* C15: oracle with load balancing, model offloading: after the
   load-balancing pass every service taken from an overloaded device is
   owned by one of its online partners, and no partner that received
   services hosts more than its cpu_cores - reserved_cpu_cores (ticks in
   which every device is on) *)
C15_SurplusOnPartners ==
    [][(LoadBalanced /\ AllOn') =>
        \A d \in EdgeIds : \A s \in ToSet(services[d]) :
            s \notin ToSet(services'[d]) =>
                /\ service_server'[s] \in partner_devices[d]
                /\ s \in ToSet(services'[service_server'[s]])
                /\ Len(services'[service_server'[s]]) <= Cap(service_server'[s])
    ]_vars

ProactiveModel == Proactive /\ offloading = "model"
Counters(sv) == [r \in {"trained", "actual_training_time", "actual_prediction_time", "predictions_counter", "program_counter"} |-> sv[r]]
Uploading(d) ==
    /\ d \in EdgeIds
    /\ transfer_model[d].transfer
    /\ transfer_model[d].transfer_to_device_id # 0

(* C16 as stated: proactive model strategy: the services a device uploaded
   come back as one set: once one of them is on an edge device again, all
   of them are on that device *)
C16_Original ==
    ProactiveModel =>
        \A s1 \in ServiceIds : \A s2 \in ServiceIds :
            (/\ uploaded_by[s1] # 0
             /\ uploaded_by[s2] = uploaded_by[s1]
             /\ service_server[s1] # ServerId)
            => service_server[s2] = service_server[s1]

(* C16: proactive model strategy: from the tick that initiated the upload
   of a service until a download of it has completed, no tick changes its
   trained flag, its training and prediction times, its predictions_counter
   or its program_counter (only its state goes to stopped), and its owner
   changes only by the completed upload (to the server) and by a completed
   download (to the receiving edge device); a download delivers at most one
   service to a device hosting none or, with load balancing, at most the
   free slots of the device, so the set may come back split *)
C16_RoundTripFields ==
    [][ProactiveModel =>
        /\ \A s \in ServiceIds :
              LET o == service_server[s]
              IN (\/ o = ServerId
                  \/ (Uploading(o) /\ s \in ToSet(transfer_model[o].transfer_service_ids)))
                 => /\ Counters(service'[s]) = Counters(service[s])
                    /\ service'[s].state \in {service[s].state, "stopped"}
                    /\ service_server'[s] # o =>
                          IF o = ServerId
                          THEN Has(events'[service_server'[s]], "download_completed")
                          ELSE /\ service_server'[s] = ServerId
                               /\ Has(events'[o], "upload_completed")
        /\ \A d \in EdgeIds : Has(events'[d], "download_completed") =>
              Len(services'[d]) <= IF loadbalancing THEN Max(Cap(d), Len(services[d]))
                                   ELSE Max(1, Len(services[d]))
    ]_vars

(* a service that ran, was stopped during a two-tick upload and was then
   downloaded by another device, while the service uploaded with it is
   still on the server *)
C16_Witness ==
    /\ ProactiveModel
    /\ \E s \in ServiceIds : \E o \in ServiceIds \ {s} :
          /\ uploaded_by[s] # 0 /\ uploaded_by[o] = uploaded_by[s]
          /\ transfer_time[uploaded_by[s]] = MaxTransferTime
          /\ service_server[s] \notin {ServerId, uploaded_by[s]}
          /\ Has(events[service_server[s]], "download_completed")
          /\ service[s].program_counter >= 1
          /\ service[s].state = "stopped"
          /\ service_server[o] = ServerId

MeasuredOn(d, t) ==
    Cardinality({i \in 1..Len(temperature_measurement[d]) :
                    temperature_measurement[d][i].timestep = t})
RECURSIVE MeasuredIn(_, _)
MeasuredIn(S, t) ==
    IF S = {} THEN 0
    ELSE LET d == CHOOSE x \in S : TRUE
         IN MeasuredOn(d, t) + MeasuredIn(S \ {d}, t)
Measured(t) == MeasuredIn(Devices, t)

(* C17: data offloading: a tick neither drops nor duplicates a measurement:
   for every earlier tick the number of its measurements in all buffers
   (edge devices and server) is unchanged, and the tick adds exactly one
   measurement for every device that is on and not in flight; a completed
   upload leaves the device's buffer empty, a completed download leaves the
   server's buffer empty, a failed transfer leaves the device's buffer as it
   was *)
C17_BuffersConserved ==
    [][offloading = "data" =>
        /\ \A t \in 1..steps : Measured(t)' = Measured(t)
        /\ \A t \in 1..MaxSteps : t = steps + 1 =>
              Measured(t)' =
                  Cardinality({d \in EdgeIds : status'[d].state = "on"
                                               /\ ~transfer_model[d].transfer})
        /\ \A d \in EdgeIds :
              /\ Has(events'[d], "upload_completed") => temperature_measurement'[d] = <<>>
              /\ (events'[d] # <<>> /\ Last(events'[d]) \in {"upload_failed", "download_failed"})
                    => IsPrefix(temperature_measurement[d], temperature_measurement'[d])
        /\ (\E d \in EdgeIds : events'[d] # <<>> /\ Last(events'[d]) = "download_completed"
                /\ \A e \in EdgeIds : e > d => ~Has(events'[e], "upload_completed"))
              => temperature_measurement'[ServerId] = <<>>
    ]_vars

(* a buffer was moved off an edge device and appended to the buffer of
   another one: that device holds an older measurement after a newer one,
   and every measurement taken so far is still in some buffer *)
C17_Witness ==
    /\ offloading = "data" /\ steps >= 2
    /\ \E d \in EdgeIds :
          \E i \in 1..Len(temperature_measurement[d]) :
              \E j \in 1..Len(temperature_measurement[d]) :
                  /\ i < j
                  /\ temperature_measurement[d][i].timestep
                         >= temperature_measurement[d][j].timestep
    /\ \E e \in EdgeIds : temperature_measurement[e] = <<>>

(* C18: proactive with a battery: an upload is initiated in a tick only if
   the state of charge is below 0.4 * max_capacity_wh in that tick, and
   never while the device is in state on *)
C18_UploadOnlyWhenCritical ==
    (Proactive /\ battery_mode) =>
        \A d \in EdgeIds :
            Has(events[d], "upload_initiated") =>
                /\ bsoc[d] * 10 < max_capacity_wh * 4
                /\ status[d].state # "on"

ValidRun == config \in ValidConfigs

(* what a run on a valid configuration keeps true *)
RunBounded ==
    /\ steps <= MaxSteps
    /\ result \in {"none", "True"}
    /\ (pc = "done" <=> result = "True")
    /\ (result = "True" => steps = MaxSteps)
    /\ (pc = "main" => steps = 0)

(* what each step of a run on a valid configuration does: validation
   passes, then one tick at a time, then main returns True *)
RunAdvances ==
    /\ pc # "done"
    /\ (pc = "main" => pc' = "run" /\ steps' = steps)
    /\ (pc = "run" /\ steps # MaxSteps => pc' = "run" /\ steps' = steps + 1)
    /\ (pc = "run" /\ steps = MaxSteps => result' = "True" /\ steps' = steps)

(* C19: for every valid configuration (each strategy, model or data
   offloading, loadbalancing on or off, battery on or off) the run executes
   the tick hook exactly simulation_steps times, halts with
   steps = simulation_steps, raises no error and main returns success *)
C19_RunCompletes ==
    [](ValidRun => RunBounded) /\ [][ValidRun => RunAdvances]_vars

(* main has returned True after the last tick of a reactive run with a battery *)
C19_Witness ==
    /\ ValidRun
    /\ strategy = "reactive" /\ battery_mode /\ loadbalancing
    /\ result = "True" /\ steps = MaxSteps
    /\ \E s \in ServiceIds : service[s].trained

(* C20: for every configuration that fails validation (a missing required
   key or section, a wrong type, an out-of-range value, a strategy or
   offloading string outside the allowed ones) main reports the error,
   returns False and executes no simulation tick *)
C20_InvalidReturnsFalse ==
    (config \in InvalidConfigs /\ pc = "done") => (result = "False" /\ steps = 0)

(* the counters of a service that a run advances *)
RunCounters(sv) == [r \in {"actual_training_time", "actual_prediction_time", "predictions_counter", "program_counter"} |-> sv[r]]

(* C21: in every strategy, in a tick in which a device is off, and in the
   proactive strategy also in a tick in which the device has a transfer in
   flight, every service the device hosts is set to stopped and none of its
   counters advances in that tick *)
C21_InactiveStopsServices ==
    [][\A d \in EdgeIds : \A s \in ServiceIds :
          (/\ service_server[s] = d
           /\ \/ status'[d].state = "off"
              \/ Proactive /\ transfer_model[d].transfer)
          => /\ service'[s].state = "stopped"
             /\ RunCounters(service'[s]) = RunCounters(service[s])]_vars

(* C22: a service that starts untrained with actual_training_time = 0 is
   trained after exactly max_training_time runs, with actual_training_time
   back at 0 (program_counter counts the runs of a service) *)
C22_TrainedAfterMaxRuns ==
    \A s \in ServiceIds :
        service[s].program_counter >= max_training_time =>
            /\ service[s].trained
            /\ service[s].actual_training_time = 0

(* C23: predictions_counter and actual_prediction_time of a service change
   only in runs in which the service is trained; once trained, every run
   advances actual_prediction_time by one and every max_prediction_time-th
   run increments predictions_counter by exactly 1 and resets
   actual_prediction_time to 0; 0 <= actual_prediction_time <=
   max_prediction_time after every tick *)
C23_PredictOnlyTrained ==
    [][\A s \in ServiceIds :
          LET old == service[s]
              new == service'[s]
              ran == new.program_counter = old.program_counter + 1
          IN /\ new.actual_prediction_time \in 0..max_prediction_time
             /\ new.program_counter \in {old.program_counter, old.program_counter + 1}
             /\ (new.predictions_counter # old.predictions_counter
                 \/ new.actual_prediction_time # old.actual_prediction_time)
                => ran /\ new.trained
             /\ (ran /\ new.trained) =>
                  IF old.actual_prediction_time + 1 = max_prediction_time
                  THEN /\ new.predictions_counter = old.predictions_counter + 1
                       /\ new.actual_prediction_time = 0
                  ELSE /\ new.predictions_counter = old.predictions_counter
                       /\ new.actual_prediction_time = old.actual_prediction_time + 1]_vars

(* a service completed its first prediction cycle in the run that follows
   max_training_time + 1 training runs and max_prediction_time - 1 predictions *)
C23_Witness ==
    \E s \in ServiceIds :
        /\ service[s].trained
        /\ service[s].predictions_counter >= 1
        /\ service[s].program_counter =
               max_training_time + 1 + max_prediction_time * service[s].predictions_counter - 1

(* C24: proactive: a tick in which a transfer of device d fails leaves d's
   transfer record neutral (flag false, duration 0, both direction slots 0,
   transfer_service_ids empty), raises exactly one failed counter by exactly
   1 for it (d's own for an upload, the server's for a download, which
   counts one per failed download of the tick), and moves no service and no
   measurement to or from d: d hosts and owns the same services and holds
   the same buffer as before the tick, and none of the services a failed
   download had pinned is owned by d *)
C24_FailedTransferResets ==
    [][Proactive =>
        \A d \in EdgeIds :
            LET up == Has(events'[d], "upload_failed")
                down == Has(events'[d], "download_failed")
                pinned == ToSet(transfer_model[d].transfer_service_ids)
            IN (up \/ down) =>
                /\ ~(up /\ down)
                /\ Count(events'[d], "upload_failed") + Count(events'[d], "download_failed") = 1
                /\ ~transfer_model'[d].transfer
                /\ transfer_model'[d].transfer_duration = 0
                /\ transfer_model'[d].transfer_to_device_id = 0
                /\ transfer_model'[d].transfer_from_device_id = 0
                /\ transfer_model'[d].transfer_service_ids = <<>>
                /\ transfer_model'[d].transfer_failed =
                       transfer_model[d].transfer_failed + (IF up THEN 1 ELSE 0)
                /\ transfer_model'[d].transfer_succeded = transfer_model[d].transfer_succeded
                /\ transfer_model'[ServerId].transfer_failed =
                       transfer_model[ServerId].transfer_failed + DownloadsFailed'
                /\ services'[d] = services[d]
                /\ \A s \in ServiceIds : (service_server[s] = d) <=> (service_server'[s] = d)
                /\ temperature_measurement'[d] = temperature_measurement[d]
                /\ down => \A s \in pinned : service_server'[s] # d]_vars

(* a model download has failed: its services are still on the server and the
   server has counted the failure *)
C24_Witness ==
    /\ ProactiveModel
    /\ \E d \in EdgeIds :
          /\ Has(events[d], "download_failed")
          /\ services[d] = <<>>
          /\ ~transfer_model[d].transfer
    /\ services[ServerId] # <<>>
    /\ transfer_model[ServerId].transfer_failed >= 1

(* a model download to d is in flight *)
Downloading(d) ==
    /\ d \in EdgeIds
    /\ transfer_model[d].transfer
    /\ transfer_model[d].transfer_from_device_id # 0

(* C25: proactive model strategy: when a download to an edge device d
   completes, every service whose id is in d's transfer_service_ids has been
   moved from the server to d and is owned by d afterwards, the succeeded
   counter is incremented by 1 and d's transfer record is reset *)
C25_DownloadDeliversPinned ==
    [][ProactiveModel =>
        \A d \in EdgeIds :
            (Downloading(d) /\ Has(events'[d], "download_completed")) =>
                /\ \A s \in ToSet(transfer_model[d].transfer_service_ids) :
                      /\ service_server'[s] = d
                      /\ Count(services'[d], s) = 1
                /\ transfer_model'[ServerId].transfer_succeded =
                       transfer_model[ServerId].transfer_succeded + DownloadsCompleted'
                /\ transfer_model'[d] =
                       [NeutralTransfer EXCEPT
                           !.transfer_failed = transfer_model[d].transfer_failed,
                           !.transfer_succeded = transfer_model[d].transfer_succeded]]_vars

(* C26: proactive: while the in-flight flag of a device is true no upload
   and no download is initiated on it: a tick that starts with the flag true
   either resolves the transfer (one completed or failed event of its own
   direction, nothing else) or leaves transfer_service_ids and both
   direction slots unchanged and only advances the duration by one *)
C26_NoInitiationInFlight ==
    [][Proactive =>
        \A d \in EdgeIds :
            transfer_model[d].transfer =>
                /\ ~Has(events'[d], "upload_initiated")
                /\ ~Has(events'[d], "download_initiated")
                /\ IF events'[d] # <<>>
                   THEN /\ Len(events'[d]) = 1
                        /\ events'[d][1] \in
                               IF transfer_model[d].transfer_to_device_id # 0
                               THEN {"upload_completed", "upload_failed"}
                               ELSE {"download_completed", "download_failed"}
                        /\ ~transfer_model'[d].transfer
                   ELSE transfer_model'[d] =
                            [transfer_model[d] EXCEPT !.transfer_duration = @ + 1]]_vars

(* an upload has stayed in flight through a tick in which the low-power
   trigger held again, and a download through a tick in which the device was
   on, empty and powered while the server still had a service to give *)
C26_Witness ==
    /\ Proactive /\ ~battery_mode /\ offloading = "model"
    /\ \E d \in EdgeIds :
          \/ /\ Uploading(d)
             /\ transfer_model[d].transfer_duration = 2
             /\ actual_power[d] \in 1..(min_power_threshold - 1)
             /\ events[d] = <<>>
          \/ /\ Downloading(d)
             /\ transfer_model[d].transfer_duration = 2
             /\ status[d].state = "on" /\ services[d] = <<>>
             /\ actual_power[d] >= min_power_threshold
             /\ \E s \in ToSet(services[ServerId]) :
                   \A e \in EdgeIds : s \notin ToSet(transfer_model[e].transfer_service_ids)
             /\ events[d] = <<>>

WithinCapacity == \A e \in EdgeIds : Len(services[e]) <= Cap(e)

(* what every initiation of a model download to d satisfies: d is on; without
   load balancing d hosts no service; with load balancing d has a free slot
   and the download pins at most cpu_cores - reserved_cpu_cores - |services|
   services (one without load balancing) *)
DownloadInitiatedWithinSlots(d) ==
    Has(events'[d], "download_initiated") =>
        /\ status'[d].state = "on"
        /\ IF loadbalancing THEN Cap(d) - Len(services[d]) >= 1
           ELSE services[d] = <<>>
        /\ transfer_model'[d].transfer =>
              /\ transfer_model'[d].transfer_service_ids # <<>>
              /\ Len(transfer_model'[d].transfer_service_ids)
                     <= IF loadbalancing THEN Cap(d) - Len(services[d]) ELSE 1

(* C27: proactive model strategy: a download is initiated only within the
   free slots of a device that is on (a device hosting no service when load
   balancing is off), and from a fleet within capacity no edge device hosts
   more than cpu_cores - reserved_cpu_cores services after a download to it
   completes *)
C27_DownloadWithinSlots ==
    [][ProactiveModel =>
        \A d \in EdgeIds :
            /\ DownloadInitiatedWithinSlots(d)
            /\ (WithinCapacity /\ Has(events'[d], "download_completed")) =>
                   Len(services'[d]) <= Cap(d)]_vars

(* with load balancing a download has filled a device up to its capacity and
   left the surplus on the server *)
C27_Witness ==
    /\ ProactiveModel /\ loadbalancing
    /\ \E d \in EdgeIds :
          /\ Has(events[d], "download_completed")
          /\ Cap(d) >= 1
          /\ Len(services[d]) = Cap(d)
    /\ services[ServerId] # <<>>

ProactiveData == Proactive /\ offloading = "data"

(* the high-power condition of device d in the tick that ends in the primed
   state: actual_power >= min_power_threshold, or with a battery the state
   of charge above the threshold and above 40 % of the capacity *)
HighPowerAfter(d) ==
    IF battery_mode
    THEN bsoc'[d] * 36 >= min_power_threshold /\ bsoc'[d] * 10 > max_capacity_wh * 4
    ELSE actual_power'[d] >= min_power_threshold

(* C28: proactive data offloading: in a tick in which the server's buffer is
   non-empty and an edge device is in state on, has an empty
   temperature_measurement buffer, has no transfer in flight and satisfies
   the high-power condition, a data download to that device is initiated *)
C28_DataDownloadOnHighPower ==
    [][ProactiveData =>
        \A d \in EdgeIds :
            (/\ temperature_measurement[ServerId] # <<>>
             /\ temperature_measurement[d] = <<>>
             /\ ~transfer_model[d].transfer
             /\ status'[d].state = "on"
             /\ HighPowerAfter(d))
            => Has(events'[d], "download_initiated")]_vars

ReactiveModel == Reactive /\ offloading = "model"

Gained(d) == Len(services'[d]) > Len(services[d])

(* C29: reactive and oracle, model offloading: a device whose service count
   grows in a tick hosts at most max_services_per_device services at the end
   of that tick, so no move to a partner raises a count above
   max_services_per_device *)
C29_MoveWithinMaxServices ==
    [][ReactiveModel =>
        \A d \in EdgeIds : Gained(d) => Len(services'[d]) <= max_services]_vars

(* no topology starts service 1 on device 2: it was moved there, the device is
   now full and another service had to stay on the server *)
C29_Witness ==
    /\ ReactiveModel
    /\ 1 \in ToSet(services[2])
    /\ Len(services[2]) = max_services
    /\ services[ServerId] # <<>>

(* C30: reactive and oracle, model offloading: a service owned by an edge
   device at the start of a tick is owned by an edge device at the end of
   that tick; the server holds no moved service across a tick boundary *)
C30_ServerOnlyStaging ==
    [][ReactiveModel =>
        \A s \in ServiceIds :
            service_server[s] # ServerId => service_server'[s] # ServerId]_vars

HeartbeatOnly == ReactiveModel /\ ~loadbalancing

FailedOwner(s) == service_server[s] \in EdgeIds /\ status'[service_server[s]].state = "off"

(* C31: reactive and oracle heartbeat pass, model offloading: a service changes
   owner in a tick only if its owner at the start of the tick is an edge
   device whose heartbeat fails in that tick (state off); services of devices
   that are on or critical and services already held by the server stay *)
C31_OnlyFailedOwnerMoves ==
    [][HeartbeatOnly =>
        \A s \in ServiceIds :
            service_server'[s] # service_server[s] => FailedOwner(s)]_vars

LowPowerAfter(d) ==
    IF battery_mode
    THEN ~(bsoc'[d] >= WattsToWh(min_power_threshold) /\ bsoc'[d] * 10 > max_capacity_wh * 4)
    ELSE actual_power'[d] < min_power_threshold

FailedIn(ev) == Has(ev, "upload_failed") \/ Has(ev, "download_failed")

(* C32: proactive: a tick in which a device's transfer fails ends with the
   device's record neutral and with the failure as the device's last event
   (nothing is initiated again in that tick); an upload is initiated only in
   a tick in which the low-power trigger holds for the device, a download only
   in a tick in which the high-power trigger holds *)
C32_NoAutomaticRetry ==
    [][Proactive =>
        \A d \in EdgeIds :
            /\ FailedIn(events'[d]) =>
                  /\ transfer_model'[d].transfer = FALSE
                  /\ transfer_model'[d].transfer_duration = 0
                  /\ transfer_model'[d].transfer_to_device_id = 0
                  /\ transfer_model'[d].transfer_from_device_id = 0
                  /\ Last(events'[d]) \in {"upload_failed", "download_failed"}
                  /\ Count(events'[d], "upload_failed")
                         + Count(events'[d], "download_failed") = 1
            /\ Has(events'[d], "upload_initiated") => LowPowerAfter(d)
            /\ Has(events'[d], "download_initiated") => HighPowerAfter(d)]_vars

(* a device whose upload failed in an earlier tick has initiated a new one *)
C32_Witness ==
    /\ Proactive
    /\ \E d \in EdgeIds :
          /\ transfer_model[d].transfer_failed >= 1
          /\ Has(events[d], "upload_initiated")
          /\ ~FailedIn(events[d])

(* C33: consume_energy called for a device whose state of charge is below
   min_bsoc returns false and changes nothing; consume_energy and
   charge_battery change nothing but the state of charge of the device they
   are called for *)
C33_RefusedConsumeFrame ==
    battery_mode =>
        \A d \in EdgeIds : \A required_power_w \in RequiredPowers : \A e \in EnergyData :
            LET c == consume_energy(Fleet, d, required_power_w)
                g == charge_battery(Fleet, d, e)
            IN /\ bsoc[d] < min_bsoc => (~c.success /\ c.fleet = Fleet)
               /\ [c.fleet EXCEPT !.bsoc[d] = bsoc[d]] = Fleet
               /\ [g EXCEPT !.bsoc[d] = bsoc[d]] = Fleet

(* one battery was drawn below its floor, the other one was charged *)
C33_Witness ==
    /\ battery_mode
    /\ \E d \in EdgeIds : \E o \in EdgeIds \ {d} :
          /\ bsoc[d] < min_bsoc
          /\ bsoc[o] > min_bsoc
          /\ bsoc[o] = max_capacity_wh
          /\ \E required_power_w \in RequiredPowers :
                WattsToWh(required_power_w) > 0
                /\ ~consume_energy(Fleet, d, required_power_w).success

(* C34: with a battery, no device's state of charge is below min_bsoc at the
   end of two consecutive ticks *)
C34_NotBelowFloorTwice ==
    [][(battery_mode /\ steps >= 1) =>
        \A d \in EdgeIds : ~(bsoc[d] < min_bsoc /\ bsoc'[d] < min_bsoc)]_vars

BatteryTick(d, e) ==
    LET c == consume_energy(charge_battery(Fleet, d, e), d, power_required)
    IN /\ bsoc'[d] = c.fleet.bsoc[d]
       /\ actual_power'[d] = IF c.success THEN power_required ELSE 0
       /\ power_source'[d] = "battery"
       /\ IF c.success
          THEN status'[d].state \in {"on", "critical"} /\ status'[d].active
          ELSE status'[d] = [state |-> "off", active |-> FALSE]

(* C35: with a battery, every tick does for every device what charging with
   some entry of the energy trace and then consuming required_power does:
   actual_power is required_power if the consume succeeded and 0 otherwise,
   power_source is battery, a refused device ends the tick off and inactive,
   a served one on or critical *)
C35_ChargeThenConsume ==
    [][battery_mode => \A d \in EdgeIds : \E e \in EnergyData : BatteryTick(d, e)]_vars

(* one device was served by its battery and is critical, the other one was
   refused *)
C35_Witness ==
    /\ battery_mode /\ steps >= 1
    /\ \E d1 \in EdgeIds : \E d2 \in EdgeIds :
          /\ actual_power[d1] = power_required /\ power_source[d1] = "battery"
          /\ status[d1].state = "critical"
          /\ actual_power[d2] = 0 /\ power_source[d2] = "battery"
          /\ status[d2].state = "off" /\ bsoc[d2] < min_bsoc

(* the fleet with every measured temperature value blanked *)
Canon(f) ==
    [f EXCEPT !.temperature_measurement =
        [d \in DOMAIN f.temperature_measurement |->
            [i \in 1..Len(f.temperature_measurement[d]) |->
                [timestep |-> f.temperature_measurement[d][i].timestep,
                 temperature |-> 0]]],
              !.events = [d \in EdgeIds |-> <<>>]]

TickOf(f, energy, temperature, pick) ==
    Canon(update_simulation(
              [f EXCEPT !.events = [d \in EdgeIds |-> <<>>]],
              steps + 1, energy, temperature, pick))

(* C36: model offloading: the fleet after a tick (ownership, transfer
   records, state of charge, device states, service counters), temperature
   values apart, is a function of the fleet before the tick, temperature
   values apart, and of the tick's power: it is the same for every
   temperature measured in the tick and for every temperature measured before *)
C36_TickDeterministic ==
    (offloading = "model" /\ steps < MeasuredSteps) =>
        \A energy \in [EdgeIds -> EnergyData] :
            \A temperature \in [EdgeIds -> MeasuredTemperatures] :
                \A pick \in [EdgeIds -> 1..MaxPick] :
                    TickOf(Fleet, energy, temperature, pick)
                        = TickOf(Canon(Fleet), energy, [d \in EdgeIds |-> 0],
                                 [d \in EdgeIds |-> 1])

(* two devices have measured different temperatures in different ticks *)
C36_Witness ==
    /\ offloading = "model" /\ steps >= 2
    /\ \E d1 \in EdgeIds : \E d2 \in EdgeIds \ {d1} :
          /\ \E i \in 1..Len(temperature_measurement[d1]) :
                temperature_measurement[d1][i].temperature = 0
          /\ \E i \in 1..Len(temperature_measurement[d2]) :
                temperature_measurement[d2][i].temperature = 40
          /\ Len(temperature_measurement[d1]) # Len(temperature_measurement[d2])

Deadline(d) == initiated_at[d] + transfer_time[d]

(* C37: proactive: a transfer initiated at tick t is in flight at the end of
   no tick from t + transfer_time on, and it is completed or failed, with the
   record neutral again, at tick t + transfer_time at the latest *)
C37_TransferResolvedInTime ==
    Proactive =>
        \A d \in EdgeIds :
            /\ transfer_model[d].transfer => steps < Deadline(d)
            /\ Resolved(d) => (steps <= Deadline(d) /\ Neutral(d))
            /\ ~transfer_model[d].transfer => Neutral(d)

(* an upload of three ticks or more has been completed, another transfer was
   failed on the way *)
C37_Witness ==
    /\ Proactive
    /\ \E d1 \in EdgeIds : \E d2 \in EdgeIds :
          /\ transfer_time[d1] >= 3
          /\ Has(events[d1], "upload_completed")
          /\ steps = Deadline(d1) - 1
          /\ transfer_model[d2].transfer_failed >= 1

(* the largest draw of one consume_energy call, in hundredths of a Wh *)
MaxDraw == WattsToWh(100)

Drawn(d) == bsoc'[d] < bsoc[d]

UndercutFloor(d) == bsoc'[d] >= min_bsoc - MaxDraw

(* C38: energy is subtracted from a battery only while its state of charge
   is at least min_bsoc, by one draw, so a state of charge that is at least
   min_bsoc - draw stays so: the floor is undercut by at most one draw, and a
   battery below the floor is not drawn from until charging has raised it *)
C38_FloorUndercutOnce ==
    [][battery_mode =>
        \A d \in EdgeIds :
            /\ Drawn(d) =>
                  /\ bsoc[d] >= min_bsoc
                  /\ \E w \in RequiredPowers : bsoc'[d] = bsoc[d] - WattsToWh(w)
                  /\ UndercutFloor(d)
            /\ bsoc[d] >= min_bsoc - MaxDraw => UndercutFloor(d)]_vars

(* a battery was drawn from at its floor by the largest draw *)
C38_Witness ==
    /\ battery_mode
    /\ \E d \in EdgeIds :
          /\ min_bsoc > 0
          /\ bsoc[d] < 0
          /\ bsoc[d] = min_bsoc - MaxDraw

ProactiveNoBattery == Proactive /\ ~battery_mode

(* C39: proactive without battery: an upload is initiated in a tick only on
   a device that is critical or off in that tick, with actual_power below
   min_power_threshold; a download only to a device that is on, with
   actual_power above min_power_threshold; no device has both in one tick *)
C39_TriggersDisjoint ==
    [][ProactiveNoBattery =>
        \A d \in EdgeIds :
            /\ Has(events'[d], "upload_initiated") =>
                  /\ status'[d].state \in {"critical", "off"}
                  /\ actual_power'[d] < min_power_threshold
            /\ Has(events'[d], "download_initiated") =>
                  /\ status'[d].state = "on"
                  /\ actual_power'[d] > min_power_threshold
            /\ ~(Has(events'[d], "upload_initiated")
                 /\ Has(events'[d], "download_initiated"))
            /\ ~(LowPowerAfter(d) /\ status'[d].state = "on" /\ HighPowerAfter(d))]_vars

(* a device exactly at the threshold is critical and initiates nothing, while
   a download to another device is initiated *)
C39_Witness ==
    /\ ProactiveNoBattery
    /\ \E d1 \in EdgeIds : \E d2 \in EdgeIds :
          /\ actual_power[d1] = min_power_threshold
          /\ status[d1].state = "critical"
          /\ services[d1] = <<>> /\ events[d1] = <<>>
          /\ Has(events[d2], "download_initiated")
          /\ actual_power[d2] = min_power_threshold + 1

NoServices(d) == \A s \in ServiceIds : service_server[s] # d

(* C40: proactive, model and data offloading: a device that owns no service
   when a tick begins initiates no upload in that tick; in data offloading
   its measurement buffer stays on the device, whatever its power *)
C40_NoUploadWithoutServices ==
    [][Proactive =>
        \A d \in EdgeIds : NoServices(d) =>
            /\ ~Has(events'[d], "upload_initiated")
            /\ (offloading = "data" /\ ~transfer_model[d].transfer) =>
                  /\ IsPrefix(temperature_measurement[d], temperature_measurement'[d])
                  /\ ~transfer_model'[d].transfer]_vars

(* data offloading: a device without services holds measurements, is short of
   power and has started nothing *)
C40_Witness ==
    /\ ProactiveData /\ steps >= 2
    /\ \E d \in EdgeIds :
          /\ NoServices(d)
          /\ temperature_measurement[d] # <<>>
          /\ status[d].state = "critical"
          /\ actual_power[d] < min_power_threshold
          /\ events[d] = <<>> /\ ~transfer_model[d].transfer

====
